---- MODULE Spec2Model ----
(***************************************************************************)
(* Model of the Zarr accumulation engine of the SNODAS pipeline            *)
(* (packages/pipeline/src/zarr_builder.rs): one output path holding        *)
(* dates.json, the array metadata and the chunk objects, one ZarrBuilder   *)
(* over it, and process_cogs with its parallel per-COG tasks.              *)
(*                                                                         *)
(* The geometry constants keep the names of the source but are scaled      *)
(* down (365 x 256 x 256 chunks of a 3351 x 6935 raster become 2 x 2 x 2   *)
(* chunks of a 2 x 3 raster); dates are the integers 1..MaxDate, whose     *)
(* order is the lexicographic order of the YYYYMMDD strings.               *)
(***************************************************************************)
EXTENDS Integers, Sequences, FiniteSets, TLC

\* ------------------------------------------------------------------ bounds
MaxDate == 3
\* the COG directories given to the local builder hold dates up to MaxDirDate,
\* those given to the remote build dates up to MaxDate
MaxDirDate == 2
MaxCalls == 2
MaxFaults == 1

\* --------------------------------------------- program constants (scaled)
CHUNK_TIME == 2
CHUNK_Y == 2
CHUNK_X == 2
MASKED_ROWS == 2
MASKED_COLS == 3
NODATA_VALUE == -9999

Dates == 1..MaxDate
DirDates == 1..MaxDirDate

\* ------------------------------------------------------------ the COG files
\* The content of the COG of a date: three kinds of raster, values tagged by
\* the date so that a pixel of one date is recognisable in another slice.
\*   "A": one positive pixel at (0,0), NODATA on the rest of row 0, zero in
\*        column 0 below, negative values elsewhere (so the east chunk holds
\*        negative values and no positive one);
\*   "B": positive pixels on row 0 at odd and at even columns >= 2, zero
\*        below in the east, NODATA elsewhere;
\*   "N": NODATA everywhere.
Patterns == <<"A", "B", "N">>

\* "Pyx": one positive pixel at (y, x), NODATA everywhere else
SinglePixelPatterns == {"P00", "P01", "P02", "P10", "P11", "P12"}
PixelY(pat) == IF pat \in {"P00", "P01", "P02"} THEN 0 ELSE 1
PixelX(pat) == IF pat \in {"P00", "P10"} THEN 0
               ELSE IF pat \in {"P01", "P11"} THEN 1 ELSE 2

\* World(w) gives date d the pattern (d - 1 + w) mod 3: World(0) is A, B, N,
\* A, ... and World(1) is B, N, A, B, ...
World(w) == [d \in Dates |-> Patterns[((d - 1 + w) % Len(Patterns)) + 1]]
Worlds == {World(0), World(1)}

PatternPixel(pat, d, y, x) ==
    CASE pat = "A" -> IF y = 0 /\ x = 0 THEN d
                      ELSE IF y = 0 THEN NODATA_VALUE
                      ELSE IF x = 0 THEN 0
                      ELSE 0 - d
      [] pat = "B" -> IF y = 0 /\ x % 2 = 1 THEN 10 + d
                      ELSE IF y = 0 /\ x >= 2 THEN 20 + d
                      ELSE IF x >= 2 THEN 0
                      ELSE NODATA_VALUE
      [] pat \in SinglePixelPatterns ->
                      IF y = PixelY(pat) /\ x = PixelX(pat) THEN 100 + d
                      ELSE NODATA_VALUE
      [] OTHER -> NODATA_VALUE

\* the directories in which one COG has a single positive pixel and every
\* other COG is all NODATA
PixelWorlds ==
    {[d \in Dates |-> IF d = e THEN p ELSE "N"] : e \in Dates, p \in SinglePixelPatterns}

VARIABLES
    cog,          \* date -> pattern: the COG file of each date
    memDates,     \* ZarrBuilder.dates
    diskDates,    \* dates.json: [st |-> "absent" | "ok" | "partial", v |-> dates]
    shape,        \* shape[0] of snow_depth/zarr.json, -1 when there is no array
    chunks,       \* chunk key -> flat chunk buffer, << >> when the object is absent
    pc,           \* "init" (after new) | "opened" (after load_existing) | "tasks" |
                  \* "save" | "done" (process_cogs has returned) | "killed"
    call,         \* arguments and locals of the running (or last) process_cogs
    tcur,         \* time chunk of the group being processed
    tasks,        \* date -> state of the per-COG task of the current group
    succ,         \* success_count
    result,       \* what the last process_cogs returned
    pre,          \* the store, the builder and faults as they were when the call began
    storeFailed,  \* a chunk store failed during the running (or last) call
    cogFailed,    \* the dates whose COG could not be opened or read during the
                  \* running (or last) call
    killed,       \* a process was killed inside process_cogs
    faults,       \* number of failures (I/O failures and kills) so far
    calls         \* number of process_cogs calls so far

\* the remote build (run_build_zarr with an r2:// destination): the output
\* path above is then the staging directory ./temp_zarr
VARIABLES
    rDates,       \* the remote dates.json, as diskDates
    rShape,       \* shape[0] of the remote snow_depth/zarr.json, -1 when absent
    rChunks,      \* the remote chunk objects, as chunks
    tmp,          \* the staging directory exists
    rpc,          \* "idle" | "download" | "open" | "build" | "upload" | "returned"
    run,          \* arguments and locals of the running (or last) remote build
    upq,          \* the files of the staging directory still to upload, in the
                  \* order of the directory walk
    rres,         \* what the last remote build returned: "none" | "ok" | "err"
    rpre          \* the remote store and the staging directory as they were
                  \* when the run began

rvars == <<rDates, rShape, rChunks, tmp, rpc, run, upq, rres, rpre>>

\* the functions of the pipeline that read no state (the filename decoder,
\* the destination parser, the bounding box selection)
VARIABLES
    arg,          \* the argument of the call
    ret           \* what the call returned, NotCalled before

\* the time-series extraction (run_extract_timeseries with a local output)
VARIABLES
    tsData,       \* timeseries_data: grid id -> the entries of the cell
    tsExisting,   \* existing_dates
    tsFiles,      \* the grid files of the output directory: grid id -> data
    tsTasks,      \* COG file -> state of the process_cog task of it
    tspc,         \* "idle" | "par" | "joined" | "written"
    tsRun         \* arguments of the running (or last) extraction, the grid
                  \* files as they were when it began, and whether it
                  \* repeats the extraction before it

\* Downloader::download_with_retry
VARIABLES
    dl            \* the call: its position, the loop variable attempt,
                  \* last_error, what it returned, and the attempts made,
                  \* the delays slept and the errors met so far

\* the object store behind an R2Uploader
VARIABLES
    r2,           \* the R2Uploader: its prefix
    objects       \* the bucket: full key -> content of the object

\* generate_date_range
VARIABLES
    gen           \* the call: its position, its arguments and its locals
                  \* current and dates

uvars == <<arg, ret, tsData, tsExisting, tsFiles, tsTasks, tspc, tsRun, dl, r2, objects,
           gen>>

vars == <<cog, memDates, diskDates, shape, chunks, pc, call, tcur, tasks, succ,
          result, pre, storeFailed, cogFailed, killed, faults, calls, rvars, uvars>>

\* ------------------------------------------------------------------ helpers
Min(S) == CHOOSE m \in S : \A n \in S : m <= n
Max(S) == CHOOSE m \in S : \A n \in S : m >= n
Range(s) == {s[i] : i \in 1..Len(s)}

\* Iteration of a BTreeSet: ascending.
RECURSIVE SetToSeq(_)
SetToSeq(S) == IF S = {} THEN << >>
               ELSE LET m == Min(S) IN <<m>> \o SetToSeq(S \ {m})

InsertSorted(x, s) ==
    LET k == Cardinality({i \in 1..Len(s) : s[i] <= x})
    IN  SubSeq(s, 1, k) \o <<x>> \o SubSeq(s, k + 1, Len(s))

\* Vec::sort
RECURSIVE SortVec(_)
SortVec(s) == IF s = << >> THEN << >>
              ELSE InsertSorted(Head(s), SortVec(Tail(s)))

IsStrictlyAscending(s) == \A i \in 1..(Len(s) - 1) : s[i] < s[i + 1]

\* ---------------------------------------------------------------- geometry
NumChunksY == (MASKED_ROWS + CHUNK_Y - 1) \div CHUNK_Y
NumChunksX == (MASKED_COLS + CHUNK_X - 1) \div CHUNK_X
MaxTimeChunk == (MaxDate - 1) \div CHUNK_TIME
ChunkLen == CHUNK_TIME * CHUNK_Y * CHUNK_X
ChunkKeys == (0..MaxTimeChunk) \X (0..(NumChunksY - 1)) \X (0..(NumChunksX - 1))
\* the order of the two loops over chunk_y and chunk_x
SpatialChunks == 0..(NumChunksY * NumChunksX - 1)
ChunkYOf(ci) == ci \div NumChunksX
ChunkXOf(ci) == ci % NumChunksX

Pixel(d, y, x) == PatternPixel(cog[d], d, y, x)

Normalize(v) == IF v = NODATA_VALUE THEN 0 ELSE v

ReadHeight(cy) == IF CHUNK_Y < MASKED_ROWS - cy * CHUNK_Y
                  THEN CHUNK_Y ELSE MASKED_ROWS - cy * CHUNK_Y
ReadWidth(cx) == IF CHUNK_X < MASKED_COLS - cx * CHUNK_X
                 THEN CHUNK_X ELSE MASKED_COLS - cx * CHUNK_X

\* the window of chunk (cy, cx) read from the COG of d, NODATA replaced by 0:
\* row-major, ReadHeight rows of ReadWidth pixels
Window(d, cy, cx) ==
    [k \in 1..(ReadHeight(cy) * ReadWidth(cx)) |->
        Normalize(Pixel(d, cy * CHUNK_Y + (k - 1) \div ReadWidth(cx),
                           cx * CHUNK_X + ((k - 1) % ReadWidth(cx))))]

\* has_data without the test: no window is skipped
HasData_NoSkip(d, cy, cx) == TRUE

\* has_data
HasData(d, cy, cx) == \E k \in DOMAIN Window(d, cy, cx) : Window(d, cy, cx)[k] > 0

\* chunk_data with the window rows copied one after the other, at the row
\* stride of the window instead of that of the chunk
Staged_RowStrideOfWindow(d, timeIdx, cy, cx) ==
    LET w == Window(d, cy, cx)
        rel(i) == (i - 1) - (timeIdx % CHUNK_TIME) * CHUNK_Y * CHUNK_X
    IN  [i \in 1..ChunkLen |->
            IF rel(i) >= 0 /\ rel(i) < Len(w) THEN w[rel(i) + 1] ELSE 0]

\* chunk_data after the copy of the window rows into the time_offset slab
Staged(d, timeIdx, cy, cx) ==
    LET w == Window(d, cy, cx)
        rw == ReadWidth(cx)
        timeOffset == timeIdx % CHUNK_TIME
    IN  [i \in 1..ChunkLen |->
            LET o == i - 1
                rel == o - timeOffset * CHUNK_Y * CHUNK_X
                row == rel \div CHUNK_X
                col == rel % CHUNK_X
            IN  IF rel >= 0 /\ rel < CHUNK_Y * CHUNK_X
                   /\ row < ReadHeight(cy) /\ col < rw
                THEN w[row * rw + col + 1]
                ELSE 0]

\* retrieve_chunk_elements: an absent chunk reads as the fill value
RetrieveChunk(ch, key) == IF ch[key] = << >> THEN [i \in 1..ChunkLen |-> 0] ELSE ch[key]

\* the merge loop: a staged zero adopts the existing value
Merge(staged, existing) ==
    [i \in 1..ChunkLen |-> IF staged[i] = 0 THEN existing[i] ELSE staged[i]]

\* array[t, y, x] as a reader of the store sees it
ReadArray(ch, t, y, x) ==
    RetrieveChunk(ch, <<t \div CHUNK_TIME, y \div CHUNK_Y, x \div CHUNK_X>>)
        [((t % CHUNK_TIME) * CHUNK_Y * CHUNK_X) + ((y % CHUNK_Y) * CHUNK_X) + (x % CHUNK_X) + 1]

Rows == 0..(MASKED_ROWS - 1)
Cols == 0..(MASKED_COLS - 1)
Slice(ch, t) == [p \in Rows \X Cols |-> ReadArray(ch, t, p[1], p[2])]

\* ------------------------------------------------- locals of process_cogs
\* all_dates: the dates of the snow_depth .tif files of the directory (a
\* directory is given by the dates it holds a COG for)
AllDates(dir) == dir

\* new_dates without the difference from the existing dates
NewDates_NoDifference(all, existing, append) == SetToSeq(all)

\* new_dates
NewDates(all, existing, append) ==
    IF append THEN SetToSeq(all \ Range(existing)) ELSE SetToSeq(all)

\* combined_dates
CombinedDates(existing, new, append) ==
    IF append THEN SortVec(SortVec(existing \o new)) ELSE SortVec(new)

\* date_to_index: collected from the enumeration, a later entry replaces an
\* earlier one of the same date
DateToIndex(combined, d) == Max({i \in 1..Len(combined) : combined[i] = d}) - 1

\* files_to_process
FilesToProcess(c) == {d \in c.dir : d \in Range(c.newDates) /\ d \in Range(c.combined)}

\* time_chunk taken from the position of the date in the directory listing
\* instead of its position in combined_dates
TimeChunkOf_PositionInBatch(c, d) ==
    (Cardinality({e \in c.dir : e < d})) \div CHUNK_TIME

\* time_chunk of the file of d
TimeChunkOf(c, d) == DateToIndex(c.combined, d) \div CHUNK_TIME

\* time_chunk_groups
GroupKeys(c) == {TimeChunkOf(c, d) : d \in FilesToProcess(c)}
\* time_chunk_groups with every file under the first key: the whole batch
\* runs as one group
GroupFiles_AllFiles(c, tc) == FilesToProcess(c)

\* the files of the group of time chunk tc
GroupFiles(c, tc) == {d \in FilesToProcess(c) : TimeChunkOf(c, d) = tc}

\* the array handed to the tasks: created, or opened and grown
ShapeAfterAlloc(sh, existing, combined, append) ==
    IF ~append \/ existing = << >> THEN Len(combined)
    ELSE IF sh < Len(combined) THEN Len(combined) ELSE sh

NewTask == [st |-> "run", ci |-> 0, phase |-> "read", buf |-> << >>, n |-> 0]
\* a task whose process_single_cog returned an error
FailedTask == [st |-> "err", ci |-> 0, phase |-> "read", buf |-> << >>, n |-> 0]

\* the next spatial chunk, from ci on, whose window has a positive pixel
DataChunksFrom(d, ci) ==
    {k \in SpatialChunks : k >= ci /\ HasData(d, ChunkYOf(k), ChunkXOf(k))}

\* call also records, for the statements about two calls in succession,
\* whether the call began with the axis in memory equal to dates.json
\* (synced) and whether it repeats the call before it (secondRun)
NoCall == [dir |-> {}, append |-> FALSE, newDates |-> << >>, combined |-> << >>,
           synced |-> TRUE, secondRun |-> FALSE]
NoResult == [kind |-> "none", n |-> 0]
Ok(n) == [kind |-> "ok", n |-> n]
Err == [kind |-> "err", n |-> 0]

\* dates.json as load_existing reads it
DiskAxis == diskDates.v

Snapshot == [mem |-> memDates, dates |-> diskDates, shape |-> shape, chunks |-> chunks,
             faults |-> faults]

\* a remote build that has not begun
NoRun == [dir |-> {}, append |-> FALSE, affected |-> {}, fetched |-> {}, put |-> {},
          fetchErr |-> FALSE]

NoStore == [dates |-> [st |-> "absent", v |-> << >>], shape |-> -1,
            chunks |-> [k \in ChunkKeys |-> << >>]]

\* an empty bucket prefix and no staging directory
RemoteInit ==
    /\ rDates = NoStore.dates
    /\ rShape = NoStore.shape
    /\ rChunks = NoStore.chunks
    /\ tmp = FALSE
    /\ rpc = "idle"
    /\ run = NoRun
    /\ upq = << >>
    /\ rres = "none"
    /\ rpre = [remote |-> NoStore, staging |-> NoStore, tmp |-> FALSE]

NoArg == [kind |-> "none"]
NotCalled == [kind |-> "notcalled"]

\* no call of a stateless function is under way
NoTsRun == [dir |-> {}, append |-> FALSE, before |-> << >>, second |-> FALSE,
            total |-> 0]

\* no extraction has run: the output directory holds no grid file
TsInit ==
    /\ tsData = << >>
    /\ tsExisting = {}
    /\ tsFiles = << >>
    /\ tsTasks = << >>
    /\ tspc = "idle"
    /\ tsRun = NoTsRun

\* no generate_date_range call is under way
NoRange == [pc |-> "idle", start |-> 0, end |-> 0, current |-> 0, dates |-> << >>]

\* no uploader has been made, and the bucket is empty
NoUploader == [prefix |-> << >>]
NoObjects == << >>

NoDownload == [pc |-> "idle", attempt |-> 0, last_error |-> "none", res |-> NotCalled,
               tries |-> 0, slept |-> << >>, errors |-> << >>]

UtilInit ==
    /\ arg = NoArg
    /\ ret = NotCalled
    /\ TsInit
    /\ dl = NoDownload
    /\ r2 = NoUploader
    /\ objects = NoObjects
    /\ gen = NoRange

\* --------------------------------------------------------------------- Init
\* ZarrBuilder::new on an empty output path
BuilderStart ==
    /\ memDates = << >>
    /\ diskDates = [st |-> "absent", v |-> << >>]
    /\ shape = -1
    /\ chunks = [k \in ChunkKeys |-> << >>]
    /\ pc = "init"
    /\ call = NoCall
    /\ tcur = 0
    /\ tasks = << >>
    /\ succ = 0
    /\ result = NoResult
    /\ pre = [mem |-> << >>, dates |-> [st |-> "absent", v |-> << >>],
              shape |-> -1, chunks |-> [k \in ChunkKeys |-> << >>], faults |-> 0]
    /\ storeFailed = FALSE
    /\ cogFailed = {}
    /\ killed = FALSE
    /\ faults = 0
    /\ calls = 0

BuilderInit ==
    /\ cog \in Worlds
    /\ BuilderStart

Init ==
    /\ BuilderInit
    /\ RemoteInit
    /\ UtilInit

Idle == pc \in {"init", "opened", "done"}

\* ZarrBuilder::new on the output path as it is: nothing of an earlier store
\* is removed (a builder is made only while a process_cogs call can follow)
New ==
    /\ (Idle \/ pc = "killed")
    /\ calls < MaxCalls
    /\ memDates' = << >>
    /\ pc' = "init"
    /\ call' = NoCall
    /\ result' = NoResult
    /\ UNCHANGED <<cog, uvars, killed, rvars, diskDates, shape, chunks, tcur, tasks, succ, pre,
                   storeFailed, cogFailed, faults, calls>>

\* ZarrBuilder::load_existing: the dates of dates.json, none when it is
\* absent; a dates.json that does not parse is an error and gives no builder
LoadExisting ==
    /\ (Idle \/ pc = "killed")
    /\ calls < MaxCalls
    /\ diskDates.st # "partial"
    /\ memDates' = DiskAxis
    /\ pc' = "opened"
    /\ UNCHANGED <<cog, uvars, killed, rvars, diskDates, shape, chunks, call, result, tcur, tasks, succ,
                   pre, storeFailed, cogFailed, faults, calls>>

\* ------------------------------------------------------------- process_cogs
\* process_cogs(dir, append) repeats the call before it: the same directory,
\* both appends, the first having succeeded; on the same builder, or on a
\* builder reopened from the store when the first call began with the axis
\* in memory equal to dates.json
IsSecondRun(dir, append) ==
    /\ append
    /\ result.kind = "ok"
    /\ call.append
    /\ call.dir = dir
    /\ (pc = "done" \/ call.synced)

CallOf(dir, append) ==
    LET new == NewDates(AllDates(dir), memDates, append)
    IN  [dir |-> dir, append |-> append, newDates |-> new,
         combined |-> CombinedDates(memDates, new, append),
         synced |-> (diskDates.st # "partial" /\ memDates = DiskAxis),
         secondRun |-> IsSecondRun(dir, append)]

Enter(dir, append) ==
    /\ Idle
    /\ calls < MaxCalls
    /\ calls' = calls + 1
    /\ call' = CallOf(dir, append)
    /\ pre' = Snapshot
    /\ storeFailed' = FALSE
    /\ cogFailed' = {}
    /\ succ' = 0

\* read_dir fails
ProcessCogsReadDirFail(dir, append) ==
    /\ Enter(dir, append)
    /\ faults < MaxFaults
    /\ faults' = faults + 1
    /\ result' = Err
    /\ pc' = "done"
    /\ UNCHANGED <<cog, uvars, killed, rvars, memDates, diskDates, shape, chunks, tcur, tasks>>

\* new_dates is empty: Ok(0)
ProcessCogsNoNewDates(dir, append) ==
    /\ Enter(dir, append)
    /\ call'.newDates = << >>
    /\ result' = Ok(0)
    /\ pc' = "done"
    /\ UNCHANGED <<cog, uvars, killed, rvars, memDates, diskDates, shape, chunks, tcur, tasks, faults>>

\* create_array, open_array, set_shape or store_metadata fails: there is no
\* array to open, or the metadata cannot be read or written
ProcessCogsArrayFail(dir, append) ==
    /\ Enter(dir, append)
    /\ call'.newDates # << >>
    /\ \/ /\ append /\ memDates # << >> /\ shape = -1
          /\ faults' = faults
       \/ /\ faults < MaxFaults
          /\ faults' = faults + 1
    /\ result' = Err
    /\ pc' = "done"
    /\ UNCHANGED <<cog, uvars, killed, rvars, memDates, diskDates, shape, chunks, tcur, tasks>>

\* the array is created or opened (and grown); the first group starts
ProcessCogsBegin(dir, append) ==
    /\ Enter(dir, append)
    /\ call'.newDates # << >>
    /\ ~(append /\ memDates # << >> /\ shape = -1)
    /\ shape' = ShapeAfterAlloc(shape, memDates, call'.combined, append)
    /\ tcur' = Min(GroupKeys(call'))
    /\ tasks' = [d \in GroupFiles(call', tcur') |-> NewTask]
    /\ pc' = "tasks"
    /\ UNCHANGED <<cog, uvars, killed, rvars, memDates, diskDates, chunks, result, faults>>

\* --------------------------------------------- process_single_cog, per task
ChunkKeyOf(d, ci) == <<TimeChunkOf(call, d), ChunkYOf(ci), ChunkXOf(ci)>>

\* up to retrieve_chunk_elements of the next chunk with data and the merge;
\* Ok(nonzero_chunks) when no chunk with data is left
TaskRead(d) ==
    /\ pc = "tasks"
    /\ d \in DOMAIN tasks
    /\ tasks[d].st = "run"
    /\ tasks[d].phase = "read"
    /\ LET rest == DataChunksFrom(d, tasks[d].ci)
       IN  IF rest = {}
           THEN tasks' = [tasks EXCEPT ![d].st = "ok"]
           ELSE LET ci == Min(rest)
                    staged == Staged(d, DateToIndex(call.combined, d),
                                     ChunkYOf(ci), ChunkXOf(ci))
                IN  tasks' = [tasks EXCEPT
                        ![d].ci = ci,
                        ![d].phase = "store",
                        ![d].buf = Merge(staged, RetrieveChunk(chunks, ChunkKeyOf(d, ci)))]
    /\ UNCHANGED <<cog, uvars, killed, rvars, memDates, diskDates, shape, chunks, pc, call, tcur, succ,
                   result, pre, storeFailed, cogFailed, faults, calls>>

\* Dataset::open, rasterband or read_into_slice fails: process_single_cog
\* returns the error, which the closure of the parallel loop logs
TaskCogFail(d) ==
    /\ pc = "tasks"
    /\ d \in DOMAIN tasks
    /\ tasks[d].st = "run"
    /\ tasks[d].phase = "read"
    /\ faults < MaxFaults
    /\ faults' = faults + 1
    /\ cogFailed' = cogFailed \cup {d}
    /\ tasks' = [tasks EXCEPT ![d] = FailedTask]
    /\ UNCHANGED <<cog, uvars, killed, rvars, memDates, diskDates, shape, chunks, pc, call, tcur,
                   succ, result, pre, storeFailed, calls>>

\* store_chunk_elements succeeds
TaskStore(d) ==
    /\ pc = "tasks"
    /\ d \in DOMAIN tasks
    /\ tasks[d].st = "run"
    /\ tasks[d].phase = "store"
    /\ chunks' = [chunks EXCEPT ![ChunkKeyOf(d, tasks[d].ci)] = tasks[d].buf]
    /\ tasks' = [tasks EXCEPT ![d].ci = @ + 1, ![d].phase = "read",
                              ![d].buf = << >>, ![d].n = @ + 1]
    /\ UNCHANGED <<cog, uvars, killed, rvars, memDates, diskDates, shape, pc, call, tcur, succ,
                   result, pre, storeFailed, cogFailed, faults, calls>>

\* store_chunk_elements fails: process_single_cog returns the error, which
\* the closure of the parallel loop logs
TaskStoreFail(d) ==
    /\ pc = "tasks"
    /\ d \in DOMAIN tasks
    /\ tasks[d].st = "run"
    /\ tasks[d].phase = "store"
    /\ faults < MaxFaults
    /\ faults' = faults + 1
    /\ storeFailed' = TRUE
    /\ UNCHANGED cogFailed
    /\ tasks' = [tasks EXCEPT ![d] = FailedTask]
    /\ UNCHANGED <<cog, uvars, killed, rvars, memDates, diskDates, shape, chunks, pc, call, tcur, succ,
                   result, pre, calls>>

\* success_count counting every task, failed or not
SuccessCount_CountsAll(ts) == Cardinality(DOMAIN ts)

\* the additions to success_count of the tasks of a group: one for each task
\* whose process_single_cog returned Ok
SuccessCount(ts) == Cardinality({d \in DOMAIN ts : ts[d].st = "ok"})

\* the parallel loop of a group has joined: the next group, or the end of
\* the loop over the groups
NextGroup ==
    /\ pc = "tasks"
    /\ \A d \in DOMAIN tasks : tasks[d].st # "run"
    /\ succ' = succ + SuccessCount(tasks)
    /\ LET later == {g \in GroupKeys(call) : g > tcur}
       IN  IF later = {}
           THEN /\ pc' = "save"
                /\ tasks' = << >>
                /\ tcur' = 0
           ELSE /\ pc' = "tasks"
                /\ tcur' = Min(later)
                /\ tasks' = [d \in GroupFiles(call, Min(later)) |-> NewTask]
    /\ UNCHANGED <<cog, uvars, killed, rvars, memDates, diskDates, shape, chunks, call, result, pre,
                   storeFailed, cogFailed, faults, calls>>

\* self.dates = combined_dates; save_dates_metadata succeeds
SaveDates ==
    /\ pc = "save"
    /\ memDates' = call.combined
    /\ diskDates' = [st |-> "ok", v |-> call.combined]
    /\ result' = Ok(succ)
    /\ pc' = "done"
    /\ UNCHANGED <<cog, uvars, killed, rvars, shape, chunks, call, tcur, tasks, succ, pre, storeFailed, cogFailed,
                   faults, calls>>

\* self.dates = combined_dates; save_dates_metadata fails: fs::write could
\* not create the file (it is as it was) or failed after truncating it
SaveDatesFail ==
    /\ pc = "save"
    /\ faults < MaxFaults
    /\ faults' = faults + 1
    /\ memDates' = call.combined
    /\ diskDates' \in {diskDates, [st |-> "partial", v |-> << >>]}
    /\ result' = Err
    /\ pc' = "done"
    /\ UNCHANGED <<cog, uvars, killed, rvars, shape, chunks, call, tcur, tasks, succ, pre, storeFailed, cogFailed,
                   calls>>

\* the process is killed inside process_cogs, before dates.json is written:
\* the builder is gone, the output path is as the killed run left it
Kill ==
    /\ pc \in {"tasks", "save"}
    /\ faults < MaxFaults
    /\ faults' = faults + 1
    /\ killed' = TRUE
    /\ pc' = "killed"
    /\ memDates' = << >>
    /\ tasks' = << >>
    /\ tcur' = 0
    /\ result' = [kind |-> "killed", n |-> 0]
    /\ UNCHANGED <<cog, uvars, rvars, diskDates, shape, chunks, call, succ, pre, storeFailed,
                   cogFailed, calls>>

Next ==
    \/ New
    \/ LoadExisting
    \/ \E dir \in SUBSET DirDates, append \in BOOLEAN : ProcessCogsReadDirFail(dir, append)
    \/ \E dir \in SUBSET DirDates, append \in BOOLEAN : ProcessCogsNoNewDates(dir, append)
    \/ \E dir \in SUBSET DirDates, append \in BOOLEAN : ProcessCogsArrayFail(dir, append)
    \/ \E dir \in SUBSET DirDates, append \in BOOLEAN : ProcessCogsBegin(dir, append)
    \/ \E d \in Dates : TaskRead(d)
    \/ \E d \in Dates : TaskCogFail(d)
    \/ \E d \in Dates : TaskStore(d)
    \/ \E d \in Dates : TaskStoreFail(d)
    \/ NextGroup
    \/ SaveDates
    \/ SaveDatesFail

Spec == Init /\ [][Next]_vars

\* the same, with a process that may be killed inside process_cogs
KillNext ==
    \/ Next
    \/ Kill

KillSpec == Init /\ [][KillNext]_vars

TypeOK ==
    /\ shape \in -1..MaxDate
    /\ pc \in {"init", "opened", "tasks", "save", "done", "killed"}
    /\ faults \in 0..MaxFaults
    /\ calls \in 0..MaxCalls

\* ---------------------------------------------------------- the remote build
\* run_build_zarr with an r2:// destination.  The store under the bucket
\* prefix is rDates, rShape and rChunks; the staging directory ./temp_zarr is
\* the output path of the builder (diskDates, shape, chunks).  The root group
\* metadata zarr.json has one fixed content and is left out.
Remote == [dates |-> rDates, shape |-> rShape, chunks |-> rChunks]
Staging == [dates |-> diskDates, shape |-> shape, chunks |-> chunks]

\* get_cog_dates: the dates of the COGs of the directory, sorted
GetCogDates(dir) == SortVec(SetToSeq(dir))

\* new_dates of run_build_zarr: the COG dates that are not in dates.json
RemoteNewDates(cogDates, existing) ==
    SelectSeq(cogDates, LAMBDA d : d \notin Range(existing))

\* Iterator::position: the first index holding x
Position(s, x) == Min({i \in 1..Len(s) : s[i] = x}) - 1

\* get_affected_time_chunks taking the index in the new dates alone
GetAffectedTimeChunks_IndexInNew(existing, new) ==
    {Position(new, new[i]) \div CHUNK_TIME : i \in 1..Len(new)}

\* get_affected_time_chunks
GetAffectedTimeChunks(existing, new) ==
    LET all == SortVec(existing \o new)
    IN  {Position(all, new[i]) \div CHUNK_TIME : i \in 1..Len(new)}

\* the objects of a store: dates.json, snow_depth/zarr.json, the chunks
DatesObj == [kind |-> "dates", key |-> << >>]
MetaObj == [kind |-> "meta", key |-> << >>]
ChunkObj(k) == [kind |-> "chunk", key |-> k]

\* the chunk objects a store holds, in the order of their keys
KeyIndex(k) == (k[1] * NumChunksY + k[2]) * NumChunksX + k[3]
KeyOfIndex(i) == CHOOSE k \in ChunkKeys : KeyIndex(k) = i
KeysInOrder(S) ==
    LET idx == SetToSeq({KeyIndex(k) : k \in S})
    IN  [i \in 1..Len(idx) |-> KeyOfIndex(idx[i])]
StoredKeys(ch) == {k \in ChunkKeys : ch[k] # << >>}

\* list_prefix("snow_depth/c/<c>/") for the affected time chunks c
ListedKeys(affected) == KeysInOrder({k \in StoredKeys(rChunks) : k[1] \in affected})

\* the staging chunks after the first n listed keys were downloaded
Downloaded(keys, n) ==
    [k \in ChunkKeys |->
        IF \E i \in 1..n : keys[i] = k THEN rChunks[k] ELSE chunks[k]]

\* a remote build begins: run_build_zarr entered with an r2:// destination
\* (a run begins only while a process_cogs call can follow)
RemoteEnter(dir, append) ==
    /\ rpc \in {"idle", "returned"}
    /\ calls < MaxCalls
    /\ rpre' = [remote |-> Remote, staging |-> Staging, tmp |-> tmp]
    /\ upq' = << >>

\* append, and dates.json was fetched: it is written to the staging directory;
\* no COG date is new: return Ok
RemoteNoNewDates(dir) ==
    /\ RemoteEnter(dir, TRUE)
    /\ rDates.st = "ok"
    /\ RemoteNewDates(GetCogDates(dir), rDates.v) = << >>
    /\ tmp' = TRUE
    /\ diskDates' = rDates
    /\ run' = [NoRun EXCEPT !.dir = dir, !.append = TRUE]
    /\ rpc' = "returned"
    /\ rres' = "ok"
    /\ UNCHANGED <<cog, uvars, memDates, shape, chunks, pc, call, tcur, tasks, succ, result,
                   pre, storeFailed, cogFailed, killed, faults, calls,
                   rDates, rShape, rChunks>>

\* append, and dates.json was fetched: it is written to the staging
\* directory and the affected time chunks are computed
RemoteFetchDates(dir) ==
    /\ RemoteEnter(dir, TRUE)
    /\ rDates.st = "ok"
    /\ LET new == RemoteNewDates(GetCogDates(dir), rDates.v)
       IN  /\ new # << >>
           /\ run' = [NoRun EXCEPT !.dir = dir, !.append = TRUE,
                                   !.affected = GetAffectedTimeChunks(rDates.v, new)]
    /\ tmp' = TRUE
    /\ diskDates' = rDates
    /\ rpc' = "download"
    /\ rres' = "none"
    /\ UNCHANGED <<cog, uvars, memDates, shape, chunks, pc, call, tcur, tasks, succ, result,
                   pre, storeFailed, cogFailed, killed, faults, calls,
                   rDates, rShape, rChunks>>

\* not append; or append and download_bytes("dates.json") returned an error
\* because there is no such object: the new-store path
RemoteFresh(dir, append) ==
    /\ RemoteEnter(dir, append)
    /\ append => rDates.st = "absent"
    /\ run' = [NoRun EXCEPT !.dir = dir, !.append = append]
    /\ rpc' = "open"
    /\ rres' = "none"
    /\ UNCHANGED <<cog, uvars, memDates, diskDates, shape, chunks, pc, call, tcur, tasks, succ,
                   result, pre, storeFailed, cogFailed, killed, faults, calls,
                   rDates, rShape, rChunks, tmp>>

\* append, and download_bytes("dates.json") returned a transport error: the
\* Err(_) arm, the same new-store path
RemoteFetchDatesFail(dir) ==
    /\ RemoteEnter(dir, TRUE)
    /\ faults < MaxFaults
    /\ faults' = faults + 1
    /\ run' = [NoRun EXCEPT !.dir = dir, !.append = TRUE, !.fetchErr = TRUE]
    /\ rpc' = "open"
    /\ rres' = "none"
    /\ UNCHANGED <<cog, uvars, memDates, diskDates, shape, chunks, pc, call, tcur, tasks, succ,
                   result, pre, storeFailed, cogFailed, killed, calls,
                   rDates, rShape, rChunks, tmp>>

\* the chunk objects of the affected time chunks are listed and downloaded,
\* then snow_depth/zarr.json when the store has it
RemoteDownload ==
    /\ rpc = "download"
    /\ LET keys == ListedKeys(run.affected)
       IN  /\ chunks' = Downloaded(keys, Len(keys))
           /\ run' = [run EXCEPT !.fetched = Range(keys)]
    /\ shape' = IF rShape # -1 THEN rShape ELSE shape
    /\ rpc' = "open"
    /\ UNCHANGED <<cog, uvars, memDates, diskDates, pc, call, tcur, tasks, succ, result, pre,
                   storeFailed, cogFailed, killed, faults, calls,
                   rDates, rShape, rChunks, tmp, upq, rres, rpre>>

\* list_prefix or download_file fails after n chunk objects: the run returns
\* the error
RemoteDownloadFail ==
    /\ rpc = "download"
    /\ faults < MaxFaults
    /\ faults' = faults + 1
    /\ LET keys == ListedKeys(run.affected)
       IN  \E n \in 0..Max({0, Len(keys) - 1}) :
              /\ chunks' = Downloaded(keys, n)
              /\ run' = [run EXCEPT !.fetched = {keys[i] : i \in 1..n}]
    /\ rpc' = "returned"
    /\ rres' = "err"
    /\ UNCHANGED <<cog, uvars, memDates, diskDates, shape, pc, call, tcur, tasks, succ, result,
                   pre, storeFailed, cogFailed, killed, calls,
                   rDates, rShape, rChunks, tmp, upq, rpre>>

\* the chunk objects are downloaded; download_bytes("snow_depth/zarr.json")
\* returns a transport error, which "if let Ok" passes over
RemoteDownloadMetaFail ==
    /\ rpc = "download"
    /\ faults < MaxFaults
    /\ faults' = faults + 1
    /\ LET keys == ListedKeys(run.affected)
       IN  /\ chunks' = Downloaded(keys, Len(keys))
           /\ run' = [run EXCEPT !.fetched = Range(keys)]
    /\ rpc' = "open"
    /\ UNCHANGED <<cog, uvars, memDates, diskDates, shape, pc, call, tcur, tasks, succ, result,
                   pre, storeFailed, cogFailed, killed, calls,
                   rDates, rShape, rChunks, tmp, upq, rres, rpre>>

\* the builder: load_existing when appending and the staging directory has a
\* dates.json, create_dir_all and new otherwise
RemoteOpen ==
    /\ rpc = "open"
    /\ ~(run.append /\ diskDates.st = "partial")
    /\ IF run.append /\ diskDates.st = "ok"
       THEN /\ memDates' = DiskAxis
            /\ pc' = "opened"
            /\ tmp' = tmp
       ELSE /\ memDates' = << >>
            /\ pc' = "init"
            /\ tmp' = TRUE
    /\ call' = NoCall
    /\ result' = NoResult
    /\ rpc' = "build"
    /\ UNCHANGED <<cog, uvars, diskDates, shape, chunks, tcur, tasks, succ, pre, storeFailed,
                   cogFailed, killed, faults, calls,
                   rDates, rShape, rChunks, run, upq, rres, rpre>>

\* load_existing cannot parse the dates.json of the staging directory: the
\* run returns the error
RemoteOpenFail ==
    /\ rpc = "open"
    /\ run.append
    /\ diskDates.st = "partial"
    /\ rpc' = "returned"
    /\ rres' = "err"
    /\ UNCHANGED <<cog, uvars, memDates, diskDates, shape, chunks, pc, call, tcur, tasks, succ,
                   result, pre, storeFailed, cogFailed, killed, faults, calls,
                   rDates, rShape, rChunks, tmp, run, upq, rpre>>

\* builder.process_cogs(&cog_path, append)
RemoteProcessCogs ==
    /\ rpc = "build"
    /\ pc \in {"init", "opened"}
    /\ \/ ProcessCogsReadDirFail(run.dir, run.append)
       \/ ProcessCogsNoNewDates(run.dir, run.append)
       \/ ProcessCogsArrayFail(run.dir, run.append)
       \/ ProcessCogsBegin(run.dir, run.append)

\* process_cogs returned an error: the run returns it
RemoteBuildFail ==
    /\ rpc = "build"
    /\ pc = "done"
    /\ result.kind = "err"
    /\ rpc' = "returned"
    /\ rres' = "err"
    /\ UNCHANGED <<cog, uvars, memDates, diskDates, shape, chunks, pc, call, tcur, tasks, succ,
                   result, pre, storeFailed, cogFailed, killed, faults, calls,
                   rDates, rShape, rChunks, tmp, run, upq, rpre>>

\* the orders in which WalkDir can yield the files of the staging directory:
\* the entries of a directory come in the order the file system lists them,
\* dates.json before or after snow_depth/, and in snow_depth/ zarr.json
\* before or after c/ (the chunks among themselves are taken in key order)
WalkOrders ==
    LET dates == IF diskDates.st = "absent" THEN << >> ELSE <<DatesObj>>
        meta == IF shape = -1 THEN << >> ELSE <<MetaObj>>
        keys == KeysInOrder(StoredKeys(chunks))
        cs == [i \in 1..Len(keys) |-> ChunkObj(keys[i])]
    IN  {dates \o meta \o cs, dates \o cs \o meta,
         meta \o cs \o dates, cs \o meta \o dates}

\* process_cogs returned Ok: upload_zarr_to_r2 begins its walk
RemoteBuilt ==
    /\ rpc = "build"
    /\ pc = "done"
    /\ result.kind = "ok"
    /\ upq' \in WalkOrders
    /\ rpc' = "upload"
    /\ UNCHANGED <<cog, uvars, memDates, diskDates, shape, chunks, pc, call, tcur, tasks, succ,
                   result, pre, storeFailed, cogFailed, killed, faults, calls,
                   rDates, rShape, rChunks, tmp, run, rres, rpre>>

\* upload_bytes of the next file of the walk
RemoteUpload ==
    /\ rpc = "upload"
    /\ upq # << >>
    /\ LET o == Head(upq)
       IN  /\ rDates' = IF o.kind = "dates" THEN diskDates ELSE rDates
           /\ rShape' = IF o.kind = "meta" THEN shape ELSE rShape
           /\ rChunks' = IF o.kind = "chunk"
                         THEN [rChunks EXCEPT ![o.key] = chunks[o.key]]
                         ELSE rChunks
           /\ run' = [run EXCEPT !.put = @ \cup {o}]
    /\ upq' = Tail(upq)
    /\ UNCHANGED <<cog, uvars, memDates, diskDates, shape, chunks, pc, call, tcur, tasks, succ,
                   result, pre, storeFailed, cogFailed, killed, faults, calls,
                   tmp, rpc, rres, rpre>>

\* upload_bytes fails: the run returns the error, the files not yet uploaded
\* staying in upq
RemoteUploadFail ==
    /\ rpc = "upload"
    /\ upq # << >>
    /\ faults < MaxFaults
    /\ faults' = faults + 1
    /\ rpc' = "returned"
    /\ rres' = "err"
    /\ UNCHANGED <<cog, uvars, memDates, diskDates, shape, chunks, pc, call, tcur, tasks, succ,
                   result, pre, storeFailed, cogFailed, killed, calls,
                   rDates, rShape, rChunks, tmp, run, upq, rpre>>

\* every file is uploaded: remove_dir_all of the staging directory, Ok
RemoteFinish ==
    /\ rpc = "upload"
    /\ upq = << >>
    /\ tmp' = FALSE
    /\ diskDates' = NoStore.dates
    /\ shape' = NoStore.shape
    /\ chunks' = NoStore.chunks
    /\ rpc' = "returned"
    /\ rres' = "ok"
    /\ UNCHANGED <<cog, uvars, memDates, pc, call, tcur, tasks, succ, result, pre, storeFailed,
                   cogFailed, killed, faults, calls,
                   rDates, rShape, rChunks, run, upq, rpre>>

RemoteNext ==
    \/ \E dir \in SUBSET Dates : RemoteNoNewDates(dir)
    \/ \E dir \in SUBSET Dates : RemoteFetchDates(dir)
    \/ \E dir \in SUBSET Dates, append \in BOOLEAN : RemoteFresh(dir, append)
    \/ \E dir \in SUBSET Dates : RemoteFetchDatesFail(dir)
    \/ RemoteDownload
    \/ RemoteDownloadFail
    \/ RemoteDownloadMetaFail
    \/ RemoteOpen
    \/ RemoteOpenFail
    \/ RemoteProcessCogs
    \/ \E d \in Dates : TaskRead(d)
    \/ \E d \in Dates : TaskCogFail(d)
    \/ \E d \in Dates : TaskStore(d)
    \/ \E d \in Dates : TaskStoreFail(d)
    \/ NextGroup
    \/ SaveDates
    \/ SaveDatesFail
    \/ RemoteBuildFail
    \/ RemoteBuilt
    \/ RemoteUpload
    \/ RemoteUploadFail
    \/ RemoteFinish

RemoteSpec == Init /\ [][RemoteNext]_vars

\* the computation of the affected time chunks alone, on every ascending
\* axis a remote dates.json can hold (the store of COGs without snow: no
\* chunk object) and every COG directory
AffectedInit ==
    /\ BuilderInit
    /\ \E S \in (SUBSET Dates) \ {{}} :
          /\ rDates = [st |-> "ok", v |-> SetToSeq(S)]
          /\ rShape = Cardinality(S)
    /\ rChunks = NoStore.chunks
    /\ tmp = FALSE
    /\ rpc = "idle"
    /\ run = NoRun
    /\ upq = << >>
    /\ rres = "none"
    /\ rpre = [remote |-> NoStore, staging |-> NoStore, tmp |-> FALSE]
    /\ UtilInit

AffectedNext ==
    \/ \E dir \in SUBSET Dates : RemoteNoNewDates(dir)
    \/ \E dir \in SUBSET Dates : RemoteFetchDates(dir)

AffectedSpec == AffectedInit /\ [][AffectedNext]_vars

\* one builder, made on an empty output path, on the directories of
\* PixelWorlds, without I/O failure: every directory over the dates, so that
\* a COG can take every axis position
PixelInit ==
    /\ cog \in PixelWorlds
    /\ BuilderStart
    /\ RemoteInit
    /\ UtilInit

PixelNext ==
    \/ \E dir \in SUBSET Dates, append \in BOOLEAN : ProcessCogsNoNewDates(dir, append)
    \/ \E dir \in SUBSET Dates, append \in BOOLEAN : ProcessCogsBegin(dir, append)
    \/ \E d \in Dates : TaskRead(d)
    \/ \E d \in Dates : TaskStore(d)
    \/ NextGroup
    \/ SaveDates

PixelSpec == PixelInit /\ [][PixelNext]_vars

\* one builder, made on an empty output path, on every directory over the
\* dates, so that a batch can reach a second time chunk, without I/O
\* failure
FrameNext ==
    \/ \E dir \in SUBSET Dates, append \in BOOLEAN : ProcessCogsNoNewDates(dir, append)
    \/ \E dir \in SUBSET Dates, append \in BOOLEAN : ProcessCogsBegin(dir, append)
    \/ \E d \in Dates : TaskRead(d)
    \/ \E d \in Dates : TaskStore(d)
    \/ NextGroup
    \/ SaveDates

FrameSpec == Init /\ [][FrameNext]_vars

\* ------------------------------------- snodas.rs: the filename decoder
\* A string is the sequence of its UTF-8 bytes: an ASCII character is the
\* one-character string of it, and the two bytes of a two-byte character
\* (here: e with acute accent) are "C3" and "A9".
IsContinuationByte(b) == b = "A9"

\* str::is_char_boundary, for an index within the string
IsCharBoundary(s, i) == i = 0 \/ i = Len(s) \/ ~IsContinuationByte(s[i + 1])

\* &s[from..to] does not panic
CanSlice(s, from, to) ==
    from <= to /\ to <= Len(s) /\ IsCharBoundary(s, from) /\ IsCharBoundary(s, to)

\* &s[from..to]
StrSlice(s, from, to) == SubSeq(s, from + 1, to)

EndsWith(s, suffix) ==
    Len(s) >= Len(suffix) /\ SubSeq(s, Len(s) - Len(suffix) + 1, Len(s)) = suffix

\* str::trim_end_matches: the suffix is removed as often as it occurs
RECURSIVE TrimEndMatches(_, _)
TrimEndMatches(s, suffix) ==
    IF EndsWith(s, suffix) THEN TrimEndMatches(SubSeq(s, 1, Len(s) - Len(suffix)), suffix)
    ELSE s

\* str::split on a character: the parts between the separators
RECURSIVE Split(_, _)
Split(s, sep) ==
    IF \A i \in 1..Len(s) : s[i] # sep THEN <<s>>
    ELSE LET i == Min({j \in 1..Len(s) : s[j] = sep})
         IN  <<SubSeq(s, 1, i - 1)>> \o Split(SubSeq(s, i + 1, Len(s)), sep)

\* str::find: the byte index of the first occurrence, -1 for None
Find(s, pat) ==
    LET at == {i \in 0..(Len(s) - Len(pat)) : SubSeq(s, i + 1, i + Len(pat)) = pat}
    IN  IF at = {} THEN -1 ELSE Min(at)

\* str::contains
Contains(s, pat) == Find(s, pat) # -1

DigitChars == <<"0", "1", "2", "3", "4", "5", "6", "7", "8", "9">>
IsAsciiDigit(c) == c \in Range(DigitChars)
DigitValue(c) == (CHOOSE i \in 1..10 : DigitChars[i] = c) - 1

\* chars().skip_while(|c| !c.is_ascii_digit())
SkipWhileNotDigit(s) ==
    LET at == {i \in 1..Len(s) : IsAsciiDigit(s[i])}
    IN  IF at = {} THEN << >> ELSE SubSeq(s, Min(at), Len(s))

\* chars().take_while(|c| c.is_ascii_digit())
TakeWhileDigit(s) ==
    LET at == {i \in 1..Len(s) : ~IsAsciiDigit(s[i])}
    IN  IF at = {} THEN s ELSE SubSeq(s, 1, Min(at) - 1)

RECURSIVE DigitsValue(_)
DigitsValue(s) ==
    IF s = << >> THEN 0 ELSE DigitsValue(SubSeq(s, 1, Len(s) - 1)) * 10 + DigitValue(s[Len(s)])

ParseErr == [ok |-> FALSE, v |-> 0]

\* str::parse for the integer types: an optional sign ('+', and '-' for a
\* signed type), then one digit at least and digits only (a '-' before the
\* digits of an unsigned type is an error). The strings of the model have
\* at most six digits (two where the type is u8): no value overflows.
ParseInteger(s, signed) ==
    LET sign == IF s # << >> /\ s[1] \in {"+", "-"} THEN s[1] ELSE ""
        digits == IF sign = "" THEN s ELSE SubSeq(s, 2, Len(s))
    IN  IF digits = << >> \/ \E i \in 1..Len(digits) : ~IsAsciiDigit(digits[i]) THEN ParseErr
        ELSE IF sign = "-" /\ ~signed THEN ParseErr
        ELSE [ok |-> TRUE, v |-> IF sign = "-" THEN 0 - DigitsValue(digits)
                                  ELSE DigitsValue(digits)]

\* ProductId::from_code is Some
ProductCodes == {1034, 1036, 1044, 1050, 1039, 1025, 1038}

IsLeapYear(y) == (y % 4 = 0 /\ y % 100 # 0) \/ y % 400 = 0
DaysInMonth(y, m) ==
    IF m = 2 THEN (IF IsLeapYear(y) THEN 29 ELSE 28)
    ELSE IF m \in {4, 6, 9, 11} THEN 30 ELSE 31

\* NaiveDate::from_ymd_opt is Some (the years of the model are within the
\* range of NaiveDate)
IsDate(y, m, d) == m \in 1..12 /\ d >= 1 /\ d <= DaysInMonth(y, m)

None == [kind |-> "none"]
Panic == [kind |-> "panic"]
Some(v) == [kind |-> "some", v |-> v]

StrUs == <<"u", "s">>
StrDat == <<".", "d", "a", "t">>
StrGz == <<".", "g", "z">>
StrDatGz == <<".", "d", "a", "t", ".", "g", "z">>
StrSl == <<"S", "l">>
StrTtnats == <<"T", "T", "N", "A", "T", "S">>

\* the date digits sliced and parsed one field after the other, each ? or
\* panic ending the function
ParseDatePart(filename, productCode, isModel, datePart) ==
    IF ~CanSlice(datePart, 0, 4) THEN Panic
    ELSE LET year == ParseInteger(StrSlice(datePart, 0, 4), TRUE) IN
    IF ~year.ok THEN None
    ELSE IF ~CanSlice(datePart, 4, 6) THEN Panic
    ELSE LET month == ParseInteger(StrSlice(datePart, 4, 6), FALSE) IN
    IF ~month.ok THEN None
    ELSE IF ~CanSlice(datePart, 6, 8) THEN Panic
    ELSE LET day == ParseInteger(StrSlice(datePart, 6, 8), FALSE) IN
    IF ~day.ok THEN None
    ELSE IF ~CanSlice(datePart, 8, 10) THEN Panic
    ELSE LET hour == ParseInteger(StrSlice(datePart, 8, 10), FALSE) IN
    IF ~hour.ok THEN None
    ELSE IF ~IsDate(year.v, month.v, day.v) THEN None
    ELSE Some([date |-> <<year.v, month.v, day.v>>, product_id |-> productCode,
               filename |-> filename, is_model |-> isModel, hour |-> hour.v])

\* SnodasFile::parse_filename
ParseFilename(filename) ==
    IF ~EndsWith(filename, StrDat) /\ ~EndsWith(filename, StrDatGz) THEN None
    ELSE LET base == TrimEndMatches(TrimEndMatches(filename, StrGz), StrDat)
             parts == Split(base, "_")
         IN
    IF Len(parts) < 4 THEN None
    ELSE IF parts[1] # StrUs THEN None
    ELSE LET productPart == parts[2]
             fullCode == ParseInteger(TakeWhileDigit(SkipWhileNotDigit(productPart)), FALSE)
         IN
    IF ~fullCode.ok THEN None
    ELSE LET productCode == fullCode.v % 10000 IN
    IF productCode \notin ProductCodes THEN None
    ELSE LET isModel == Contains(productPart, StrSl)
             ttnatsPos == Find(base, StrTtnats)
         IN
    IF ttnatsPos = -1 THEN None
    ELSE LET dateStart == ttnatsPos + 6 IN
    IF dateStart + 10 > Len(base) THEN None
    ELSE IF ~CanSlice(base, dateStart, dateStart + 10) THEN Panic
    ELSE ParseDatePart(filename, productCode, isModel,
                       StrSlice(base, dateStart, dateStart + 10))

\* the names given to the decoder, by their parts:
\*   <region>_ssmv<digits><suffix>[TTNATS]<date><tail><ext>
NameRegions == {<<"u", "s">>,
     <<"z", "z">>}
NameDigits == {<<"1", "1", "0", "3", "4">>,
     <<"0", "1", "0", "3", "6">>,
     <<"0", "1", "0", "9", "9">>,
     <<>>}
\* the suffix of an observed (tS__T0001) and of a modeled (SlL01T0024) payload
NameSuffixes == {<<"t", "S", "_", "_", "T", "0", "0", "0", "1">>,
     <<"S", "l", "L", "0", "1", "T", "0", "0", "2", "4">>}
NameMarkers == {<<"T", "T", "N", "A", "T", "S">>,
     <<"T", "T", "N", "A", "T">>}
\* dates and hours, valid or not; eight digits only; a sign in the month;
\* a two-byte character across the end of the ten bytes
NameDates == {<<"2", "0", "2", "3", "1", "2", "0", "1", "0", "5">>,
     <<"2", "0", "2", "4", "0", "2", "2", "9", "2", "3">>,
     <<"2", "0", "2", "3", "0", "2", "3", "0", "0", "5">>,
     <<"2", "0", "2", "3", "1", "2", "0", "1", "9", "9">>,
     <<"2", "0", "2", "3", "1", "2", "0", "1">>,
     <<"2", "0", "2", "3", "+", "1", "0", "1", "0", "5">>,
     <<"2", "0", "2", "3", "1", "2", "0", "1", "0", "C3", "A9">>}
NameTails == {<<"H", "P", "0", "0", "1">>,
     <<"D", "P", "0", "0", "1">>,
     <<>>}
NameExts == {<<".", "d", "a", "t">>,
     <<".", "d", "a", "t", ".", "g", "z">>,
     <<".", "t", "x", "t">>}
StrSsmv == <<"s", "s", "m", "v">>

NameParts ==
    [region : NameRegions, digits : NameDigits, suffix : NameSuffixes,
     marker : NameMarkers, date : NameDates, tail : NameTails, ext : NameExts]

NameOf(p) ==
    p.region \o <<"_">> \o StrSsmv \o p.digits \o p.suffix \o p.marker \o p.date
        \o p.tail \o p.ext

\* one call of the decoder on one of the names
DecoderInit ==
    /\ BuilderInit
    /\ RemoteInit
    /\ arg \in NameParts
    /\ ret = NotCalled
    /\ TsInit
    /\ dl = NoDownload
    /\ r2 = NoUploader
    /\ objects = NoObjects
    /\ gen = NoRange

DecodePayloadName ==
    /\ ret = NotCalled
    /\ arg \in NameParts
    /\ ret' = ParseFilename(NameOf(arg))
    /\ UNCHANGED <<cog, memDates, diskDates, shape, chunks, pc, call, tcur, tasks, succ,
                   result, pre, storeFailed, cogFailed, killed, faults, calls, rvars, dl, arg,
                   tsData, tsExisting, tsFiles, tsTasks, tspc, tsRun,
                   r2, objects, gen>>

DecoderNext == DecodePayloadName

DecoderSpec == DecoderInit /\ [][DecoderNext]_vars

\* --------------------------------- storage.rs: the destination parser
StartsWith(s, prefix) == Len(s) >= Len(prefix) /\ SubSeq(s, 1, Len(prefix)) = prefix

StrR2 == <<"r", "2", ":", "/", "/">>
StrS3 == <<"s", "3", ":", "/", "/">>

\* str::splitn(2, sep): the part before the first separator and, when
\* there is a separator, the rest
SplitN2(s, sep) ==
    IF \A i \in 1..Len(s) : s[i] # sep THEN <<s>>
    ELSE LET i == Min({j \in 1..Len(s) : s[j] = sep})
         IN  <<SubSeq(s, 1, i - 1), SubSeq(s, i + 1, Len(s))>>

Local(path) == [kind |-> "local", path |-> path]
R2(bucket, prefix) == [kind |-> "r2", bucket |-> bucket, prefix |-> prefix]

\* OutputDestination::from_str
FromStr(s) ==
    IF StartsWith(s, StrR2)
    THEN LET path == SubSeq(s, Len(StrR2) + 1, Len(s))
             parts == SplitN2(path, "/")
         IN  R2(parts[1], IF Len(parts) >= 2 THEN parts[2] ELSE << >>)
    ELSE Local(s)

\* the destinations given to the parser, by their parts:
\* <scheme><bucket>[/<prefix>]
DestSchemes == {<<"r", "2", ":", "/", "/">>, <<"s", "3", ":", "/", "/">>, <<"r", "2", ":", "/">>, <<"/">>, <<".", "/">>, <<>>}
DestBuckets == {<<"b">>, <<"b", "k", "t">>, <<"z", "a", "r", "r", "-", "o", "u", "t", "p", "u", "t">>}
DestRests == {<<>>, <<"/">>, <<"/", "p">>, <<"/", "p", "/", "q">>, <<"/", "s", "n", "o", "d", "a", "s", "/", "z", "a", "r", "r", "/">>}

DestParts == [scheme : DestSchemes, bucket : DestBuckets, rest : DestRests]

DestOf(p) == p.scheme \o p.bucket \o p.rest

DestInit ==
    /\ BuilderInit
    /\ RemoteInit
    /\ arg \in DestParts
    /\ ret = NotCalled
    /\ TsInit
    /\ dl = NoDownload
    /\ r2 = NoUploader
    /\ objects = NoObjects
    /\ gen = NoRange

ParseDestination ==
    /\ ret = NotCalled
    /\ arg \in DestParts
    /\ ret' = FromStr(DestOf(arg))
    /\ UNCHANGED <<cog, memDates, diskDates, shape, chunks, pc, call, tcur, tasks, succ,
                   result, pre, storeFailed, cogFailed, killed, faults, calls, rvars, dl, arg,
                   tsData, tsExisting, tsFiles, tsTasks, tspc, tsRun,
                   r2, objects, gen>>

DestNext == ParseDestination

DestSpec == DestInit /\ [][DestNext]_vars

\* ------------------------------- snodas.rs: the bounding box selection
\* a NaiveDate is <<year, month, day>>; the order of NaiveDate
DateLess_OrEqual(a, b) ==
    \/ a[1] < b[1]
    \/ a[1] = b[1] /\ a[2] < b[2]
    \/ a[1] = b[1] /\ a[2] = b[2] /\ a[3] <= b[3]

DateLess(a, b) ==
    \/ a[1] < b[1]
    \/ a[1] = b[1] /\ a[2] < b[2]
    \/ a[1] = b[1] /\ a[2] = b[2] /\ a[3] < b[3]

\* NaiveDate::parse_from_str(COORDINATE_SHIFT_DATE, "%Y-%m-%d")
ShiftDate == <<2013, 10, 1>>

BBOX_PRE_2013 == [kind |-> "bbox", name |-> "BBOX_PRE_2013"]
BBOX_POST_2013 == [kind |-> "bbox", name |-> "BBOX_POST_2013"]

\* get_bbox_for_date
GetBboxForDate(date) == IF DateLess(date, ShiftDate) THEN BBOX_PRE_2013 ELSE BBOX_POST_2013

\* the calendar dates of the years around the shift
BboxYears == 2012..2014
CalendarDates == {t \in BboxYears \X (1..12) \X (1..31) : IsDate(t[1], t[2], t[3])}

BboxInit ==
    /\ BuilderInit
    /\ RemoteInit
    /\ arg \in CalendarDates
    /\ ret = NotCalled
    /\ TsInit
    /\ dl = NoDownload
    /\ r2 = NoUploader
    /\ objects = NoObjects
    /\ gen = NoRange

SelectBbox ==
    /\ ret = NotCalled
    /\ arg \in CalendarDates
    /\ ret' = GetBboxForDate(arg)
    /\ UNCHANGED <<cog, memDates, diskDates, shape, chunks, pc, call, tcur, tasks, succ,
                   result, pre, storeFailed, cogFailed, killed, faults, calls, rvars, dl, arg,
                   tsData, tsExisting, tsFiles, tsTasks, tspc, tsRun,
                   r2, objects, gen>>

BboxNext == SelectBbox

BboxSpec == BboxInit /\ [][BboxNext]_vars

\* ---------------------------------- timeseries.rs: TimeSeriesExtractor
\* The grid points, in the order of grid_points, by the pixel each falls on:
\* three on the raster and one below it.
GridSeq == <<"g0", "g1", "g2", "g3">>
GridIds == Range(GridSeq)
PointPixel(g) ==
    CASE g = "g0" -> <<0, 0>>
      [] g = "g1" -> <<0, 1>>
      [] g = "g2" -> <<1, 2>>
      [] OTHER -> <<MASKED_ROWS, 0>>

\* the pixel is on the raster
InRaster(px) == px[1] >= 0 /\ px[1] < MASKED_ROWS /\ px[2] >= 0 /\ px[2] < MASKED_COLS

\* The snow_depth COG files of a directory: the file of a date, and a second
\* file of date 1 with the same content under another product name.
CogFiles == {[date |-> d, copy |-> 1] : d \in DirDates} \cup {[date |-> 1, copy |-> 2]}

\* extract_date_from_cog_filename
DateOfFile(f) == f.date

Entry(d, v) == [date |-> d, value |-> v]

\* Vec::push replaced by an assignment of the one entry
Push_Overwrite(data, e) == <<e>>

\* Vec::push
Push(data, e) == Append(data, e)

\* entry(grid_id).or_default(): the vector of the cell, empty when the map
\* has no such key
OrDefault(map, g) == IF g \in DOMAIN map THEN map[g] ELSE << >>

\* map with the value of key g set
WithKey(map, g, v) == [k \in DOMAIN map \cup {g} |-> IF k = g THEN v ELSE map[k]]

\* the entry inserted after the entries whose date is not greater: one step
\* of the stable sort
InsertByDate(e, s) ==
    LET n == Cardinality({i \in 1..Len(s) : s[i].date <= e.date})
    IN  SubSeq(s, 1, n) \o <<e>> \o SubSeq(s, n + 1, Len(s))

\* data.sort_by(|a, b| a.date.cmp(&b.date)) on a vector already in order
\* up to its last entry, repeated from the front: a stable sort
RECURSIVE SortByDate(_)
SortByDate(s) ==
    IF s = << >> THEN << >>
    ELSE InsertByDate(s[Len(s)], SortByDate(SubSeq(s, 1, Len(s) - 1)))

\* dedup_by without the removal
DedupByDate_KeepAll(s) == s

\* data.dedup_by(|a, b| a.date == b.date): of consecutive entries of one
\* date the first stays
DedupByDate(s) ==
    LET keep == {i \in 1..Len(s) : i = 1 \/ s[i].date # s[i - 1].date}
    IN  [k \in 1..Cardinality(keep) |->
            s[CHOOSE i \in keep : Cardinality({j \in keep : j <= i}) = k]]

\* the dates of the entries of all grid files
DatesOfFiles(files) ==
    UNION {{files[g][i].date : i \in 1..Len(files[g])} : g \in DOMAIN files}

\* the test of existing_dates left out
AlreadyProcessed_Never(existing, d) == FALSE

\* self.existing_dates.contains(&date)
AlreadyProcessed(existing, d) == d \in existing

NewTsTask == [st |-> "run", pt |-> 1, count |-> 0]
\* process_cog returned Ok(0) at once: the date is in existing_dates
SkippedTsTask == [st |-> "ok", pt |-> 1, count |-> 0]

\* the extraction repeats the one before it: the same directory, both with
\* append, the first written without I/O failure
IsSecondExtraction(dir, append) ==
    /\ append
    /\ tspc = "written"
    /\ tsRun.append
    /\ tsRun.dir = dir
    /\ faults = 0

\* run_extract_timeseries up to the start of the parallel loop:
\* TimeSeriesExtractor::new, load_existing when append, and the listing of
\* the COG directory
TsBegin(dir, append) ==
    /\ tspc \in {"idle", "written"}
    /\ calls < MaxCalls
    /\ calls' = calls + 1
    /\ tsData' = IF append THEN tsFiles ELSE << >>
    /\ tsExisting' = IF append THEN DatesOfFiles(tsFiles) ELSE {}
    /\ tsTasks' = [f \in dir |-> IF AlreadyProcessed(tsExisting', DateOfFile(f))
                                  THEN SkippedTsTask
                                  ELSE NewTsTask]
    /\ tsRun' = [dir |-> dir, append |-> append, before |-> tsFiles,
                 second |-> IsSecondExtraction(dir, append), total |-> 0]
    /\ tspc' = "par"
    /\ UNCHANGED <<cog, memDates, diskDates, shape, chunks, pc, call, tcur, tasks, succ,
                   result, pre, storeFailed, cogFailed, killed, faults, rvars, dl, arg, ret,
                   tsFiles, r2, objects, gen>>

\* process_cog, one grid point: the pixel of the point, dropped when it is
\* not on the raster, read, and appended to the cell when it is not NODATA
TsSample(f) ==
    /\ tspc = "par"
    /\ f \in DOMAIN tsTasks
    /\ tsTasks[f].st = "run"
    /\ LET g == GridSeq[tsTasks[f].pt]
           px == PointPixel(g)
           value == Pixel(DateOfFile(f), px[1], px[2])
           hit == InRaster(px) /\ value # NODATA_VALUE
       IN  /\ tsData' = IF hit
                        THEN WithKey(tsData, g, Push(OrDefault(tsData, g),
                                                     Entry(DateOfFile(f), value)))
                        ELSE tsData
           /\ tsTasks' = [tsTasks EXCEPT
                  ![f].pt = IF @ = Len(GridSeq) THEN @ ELSE @ + 1,
                  ![f].st = IF tsTasks[f].pt = Len(GridSeq) THEN "ok" ELSE "run",
                  ![f].count = IF hit THEN @ + 1 ELSE @]
    /\ UNCHANGED <<cog, memDates, diskDates, shape, chunks, pc, call, tcur, tasks, succ,
                   result, pre, storeFailed, cogFailed, killed, faults, calls, rvars, dl, arg,
                   ret, tsExisting, tsFiles, tspc, tsRun,
                   r2, objects, gen>>

\* Dataset::open, geo_transform or rasterband fails: process_cog returns the
\* error before any grid point
TsOpenFail(f) ==
    /\ tspc = "par"
    /\ f \in DOMAIN tsTasks
    /\ tsTasks[f].st = "run"
    /\ tsTasks[f].pt = 1
    /\ faults < MaxFaults
    /\ faults' = faults + 1
    /\ tsTasks' = [tsTasks EXCEPT ![f].st = "err"]
    /\ UNCHANGED <<cog, memDates, diskDates, shape, chunks, pc, call, tcur, tasks, succ,
                   result, pre, storeFailed, cogFailed, killed, calls, rvars, dl, arg, ret,
                   tsData, tsExisting, tsFiles, tspc, tsRun,
                   r2, objects, gen>>

\* read_into_slice fails for a grid point on the raster: the point is passed
\* over
TsReadFail(f) ==
    /\ tspc = "par"
    /\ f \in DOMAIN tsTasks
    /\ tsTasks[f].st = "run"
    /\ InRaster(PointPixel(GridSeq[tsTasks[f].pt]))
    /\ faults < MaxFaults
    /\ faults' = faults + 1
    /\ tsTasks' = [tsTasks EXCEPT
           ![f].pt = IF @ = Len(GridSeq) THEN @ ELSE @ + 1,
           ![f].st = IF tsTasks[f].pt = Len(GridSeq) THEN "ok" ELSE "run"]
    /\ UNCHANGED <<cog, memDates, diskDates, shape, chunks, pc, call, tcur, tasks, succ,
                   result, pre, storeFailed, cogFailed, killed, calls, rvars, dl, arg, ret,
                   tsData, tsExisting, tsFiles, tspc, tsRun,
                   r2, objects, gen>>

RECURSIVE SumCounts(_, _)
SumCounts(ts, fs) ==
    IF fs = {} THEN 0
    ELSE LET f == CHOOSE x \in fs : TRUE
         IN  (IF ts[f].st = "ok" THEN ts[f].count ELSE 0) + SumCounts(ts, fs \ {f})

\* the parallel loop has joined: process_cogs_parallel returns the total of
\* the counts of the tasks that returned Ok
TsJoin ==
    /\ tspc = "par"
    /\ \A f \in DOMAIN tsTasks : tsTasks[f].st # "run"
    /\ tsRun' = [tsRun EXCEPT !.total = SumCounts(tsTasks, DOMAIN tsTasks)]
    /\ tspc' = "joined"
    /\ UNCHANGED <<cog, memDates, diskDates, shape, chunks, pc, call, tcur, tasks, succ,
                   result, pre, storeFailed, cogFailed, killed, faults, calls, rvars, dl, arg,
                   ret, tsData, tsExisting, tsFiles, tsTasks, r2, objects, gen>>

\* write_output: the grid file of every cell of the map, sorted and without
\* a second entry of a date; the files of the other cells stay
TsWriteOutput ==
    /\ tspc = "joined"
    /\ tsFiles' = [g \in DOMAIN tsFiles \cup DOMAIN tsData |->
                      IF g \in DOMAIN tsData
                      THEN DedupByDate(SortByDate(tsData[g]))
                      ELSE tsFiles[g]]
    /\ tspc' = "written"
    /\ UNCHANGED <<cog, memDates, diskDates, shape, chunks, pc, call, tcur, tasks, succ,
                   result, pre, storeFailed, cogFailed, killed, faults, calls, rvars, dl, arg,
                   ret, tsData, tsExisting, tsTasks, tsRun,
                   r2, objects, gen>>

TsNext ==
    \/ \E dir \in SUBSET CogFiles, append \in BOOLEAN : TsBegin(dir, append)
    \/ \E f \in CogFiles : TsSample(f)
    \/ \E f \in CogFiles : TsOpenFail(f)
    \/ \E f \in CogFiles : TsReadFail(f)
    \/ TsJoin
    \/ TsWriteOutput

TsSpec == Init /\ [][TsNext]_vars

\* ------------------------------------------ download.rs: Downloader
\* Downloader::new: max_retries
MaxRetries == 3

RECURSIVE Pow2(_)
Pow2(n) == IF n = 0 THEN 1 ELSE 2 * Pow2(n - 1)

\* what download_once can fail with, and the bodies it can return
DownloadErrors == {"connect", "timeout", "http503"}
Bodies == {"tar1", "tar2"}

\* download_with_retry is called: the loop begins with attempt 0
DlBegin ==
    /\ dl.pc = "idle"
    /\ dl' = [NoDownload EXCEPT !.pc = "top"]
    /\ UNCHANGED <<cog, memDates, diskDates, shape, chunks, pc, call, tcur, tasks, succ,
                   result, pre, storeFailed, cogFailed, killed, faults, calls, rvars, arg,
                   ret, tsData, tsExisting, tsFiles, tsTasks, tspc, tsRun,
                   r2, objects, gen>>

\* the head of the loop body: no sleep before attempt 0, 2^attempt seconds
\* before the others
DlSleep ==
    /\ dl.pc = "top"
    /\ dl.attempt < MaxRetries
    /\ dl' = [dl EXCEPT !.pc = "once",
                        !.slept = IF dl.attempt > 0 THEN Append(@, Pow2(dl.attempt)) ELSE @]
    /\ UNCHANGED <<cog, memDates, diskDates, shape, chunks, pc, call, tcur, tasks, succ,
                   result, pre, storeFailed, cogFailed, killed, faults, calls, rvars, arg,
                   ret, tsData, tsExisting, tsFiles, tsTasks, tspc, tsRun,
                   r2, objects, gen>>

\* download_once returns the body: download_with_retry returns it
DlOnceOk(body) ==
    /\ dl.pc = "once"
    /\ dl' = [dl EXCEPT !.pc = "returned", !.tries = @ + 1, !.res = Some(body)]
    /\ UNCHANGED <<cog, memDates, diskDates, shape, chunks, pc, call, tcur, tasks, succ,
                   result, pre, storeFailed, cogFailed, killed, faults, calls, rvars, arg,
                   ret, tsData, tsExisting, tsFiles, tsTasks, tspc, tsRun,
                   r2, objects, gen>>

\* download_once fails: the error is kept and the loop goes on
DlOnceFail(e) ==
    /\ dl.pc = "once"
    /\ dl' = [dl EXCEPT !.pc = "top", !.tries = @ + 1, !.attempt = @ + 1,
                        !.last_error = e, !.errors = Append(@, e)]
    /\ UNCHANGED <<cog, memDates, diskDates, shape, chunks, pc, call, tcur, tasks, succ,
                   result, pre, storeFailed, cogFailed, killed, faults, calls, rvars, arg,
                   ret, tsData, tsExisting, tsFiles, tsTasks, tspc, tsRun,
                   r2, objects, gen>>

\* the loop is over: Err(last_error)
DlGiveUp ==
    /\ dl.pc = "top"
    /\ dl.attempt >= MaxRetries
    /\ dl' = [dl EXCEPT !.pc = "returned", !.res = [kind |-> "err", e |-> dl.last_error]]
    /\ UNCHANGED <<cog, memDates, diskDates, shape, chunks, pc, call, tcur, tasks, succ,
                   result, pre, storeFailed, cogFailed, killed, faults, calls, rvars, arg,
                   ret, tsData, tsExisting, tsFiles, tsTasks, tspc, tsRun,
                   r2, objects, gen>>

DownloadNext ==
    \/ DlBegin
    \/ DlSleep
    \/ \E body \in Bodies : DlOnceOk(body)
    \/ \E e \in DownloadErrors : DlOnceFail(e)
    \/ DlGiveUp

DownloadSpec == Init /\ [][DownloadNext]_vars

\* ------------------- process_cogs: the tasks of a directory of files
\* all_dates: the dates the .tif files of the directory decode to
DatesOfDir(files) == {DateOfFile(f) : f \in files}

\* files_to_process: an entry (path, date, idx) for every file of cog_files
\* whose date is in new_dates, idx being the position of the date in
\* combined_dates
FileTasks(files, existing, append) ==
    LET new == NewDates(DatesOfDir(files), existing, append)
        combined == CombinedDates(existing, new, append)
    IN  {[file |-> f, date |-> DateOfFile(f),
          idx |-> DateToIndex(combined, DateOfFile(f))] :
            f \in {g \in files : DateOfFile(g) \in Range(new)}}

\* every directory of snow_depth COG files, every ascending axis of the
\* builder and both modes
BatchInit ==
    /\ BuilderInit
    /\ RemoteInit
    /\ arg \in [dir : SUBSET CogFiles,
                existing : {SetToSeq(S) : S \in SUBSET Dates},
                append : BOOLEAN]
    /\ ret = NotCalled
    /\ TsInit
    /\ dl = NoDownload
    /\ r2 = NoUploader
    /\ objects = NoObjects
    /\ gen = NoRange

\* process_cogs up to the loop over the time-chunk groups: the tasks it is
\* to run
PlanTasks ==
    /\ ret = NotCalled
    /\ ret' = [kind |-> "tasks", v |-> FileTasks(arg.dir, arg.existing, arg.append)]
    /\ UNCHANGED <<cog, memDates, diskDates, shape, chunks, pc, call, tcur, tasks, succ,
                   result, pre, storeFailed, cogFailed, killed, faults, calls, rvars, dl, arg,
                   tsData, tsExisting, tsFiles, tsTasks, tspc, tsRun,
                   r2, objects, gen>>

BatchNext == PlanTasks

BatchSpec == BatchInit /\ [][BatchNext]_vars

\* ------------- process_single_cog: the windows of a raster of any size
\* The raster of width w and height h whose pixel (y, x) holds 1 + y * w + x:
\* every pixel is positive and no two pixels are equal.
RasterPixel(w, y, x) == 1 + y * w + x

RasterWidths == 1..(2 * CHUNK_X + 1)
RasterHeights == 1..(2 * CHUNK_Y + 1)

\* num_chunks_y and num_chunks_x
NumChunksOf(n, c) == (n + c - 1) \div c

\* read_height and read_width without the clamp
ReadExtent_NoClamp(n, c, k) == c

\* read_height and read_width: min(CHUNK, size - start)
ReadExtent(n, c, k) == IF c < n - k * c THEN c ELSE n - k * c

\* buffer after read_into_slice and the replacement of NODATA: row-major,
\* rh rows of rw pixels from (start_y, start_x) on
WindowBuffer(w, cy, cx, rh, rw) ==
    [k \in 1..(rh * rw) |->
        Normalize(RasterPixel(w, cy * CHUNK_Y + (k - 1) \div rw,
                                 cx * CHUNK_X + ((k - 1) % rw)))]

\* chunk_data after the loop over buffer.chunks(read_width): row row_idx is
\* copied to time_offset * CHUNK_Y * CHUNK_X + row_idx * CHUNK_X
ChunkData(buffer, rw, timeIdx) ==
    [i \in 1..ChunkLen |->
        LET rel == (i - 1) - (timeIdx % CHUNK_TIME) * CHUNK_Y * CHUNK_X
            row == rel \div CHUNK_X
            col == rel % CHUNK_X
        IN  IF rel >= 0 /\ row * rw < Len(buffer) /\ col < rw
            THEN buffer[row * rw + col + 1]
            ELSE 0]

\* a raster of every width and height up to two chunks and a pixel, at every
\* axis position
WindowInit ==
    /\ BuilderInit
    /\ RemoteInit
    /\ arg \in [w : RasterWidths, h : RasterHeights, t : 0..(MaxDate - 1)]
    /\ ret = NotCalled
    /\ TsInit
    /\ dl = NoDownload
    /\ r2 = NoUploader
    /\ objects = NoObjects
    /\ gen = NoRange

\* one pass of the loops over chunk_y and chunk_x, up to the merge
StageWindow(cy, cx) ==
    /\ ret = NotCalled
    /\ cy \in 0..(NumChunksOf(arg.h, CHUNK_Y) - 1)
    /\ cx \in 0..(NumChunksOf(arg.w, CHUNK_X) - 1)
    /\ LET rh == ReadExtent(arg.h, CHUNK_Y, cy)
           rw == ReadExtent(arg.w, CHUNK_X, cx)
       IN  ret' = [kind |-> "window", chunk_y |-> cy, chunk_x |-> cx,
                   start_y |-> cy * CHUNK_Y, start_x |-> cx * CHUNK_X,
                   read_height |-> rh, read_width |-> rw,
                   chunk_data |-> ChunkData(WindowBuffer(arg.w, cy, cx, rh, rw), rw, arg.t)]
    /\ UNCHANGED <<cog, memDates, diskDates, shape, chunks, pc, call, tcur, tasks, succ,
                   result, pre, storeFailed, cogFailed, killed, faults, calls, rvars, dl, arg,
                   tsData, tsExisting, tsFiles, tsTasks, tspc, tsRun,
                   r2, objects, gen>>

WindowNext ==
    \E cy \in 0..NumChunksOf(2 * CHUNK_Y + 1, CHUNK_Y),
       cx \in 0..NumChunksOf(2 * CHUNK_X + 1, CHUNK_X) : StageWindow(cy, cx)

WindowSpec == WindowInit /\ [][WindowNext]_vars

\* ------------------------------------------ storage.rs: R2Uploader
\* key, full_key and full_prefix: the five operations compute them by the
\* same expression (upload_file, download_file, download_bytes, list_prefix
\* and upload_bytes)
FullKey(prefix, key) ==
    IF prefix = << >> THEN key
    ELSE TrimEndMatches(prefix, <<"/">>) \o <<"/">> \o key

\* relative_key returned as the key of the object itself
RelativeKey_NoStrip(prefix, key) == key

\* relative_key: strip_prefix of the trimmed prefix and a slash, the key
\* itself when it does not begin so
RelativeKey(prefix, key) ==
    IF prefix = << >> THEN key
    ELSE LET lead == TrimEndMatches(prefix, <<"/">>) \o <<"/">>
         IN  IF StartsWith(key, lead) THEN SubSeq(key, Len(lead) + 1, Len(key)) ELSE key

\* list_objects_v2, all pages: the keys of the bucket that begin with the
\* prefix
ListObjects(objs, fullPrefix) == {k \in DOMAIN objs : StartsWith(k, fullPrefix)}

\* put_object
PutObject(objs, k, v) == [x \in DOMAIN objs \cup {k} |-> IF x = k THEN v ELSE objs[x]]

\* get_object
GetObject(objs, k) ==
    IF k \in DOMAIN objs THEN [kind |-> "bytes", v |-> objs[k]] ELSE [kind |-> "err"]

\* the prefixes an uploader is made with, the keys and listing prefixes it
\* is called with, and the objects a bucket can hold before: one at the top
\* of the bucket, one under a prefix that begins like "a", one under "a/"
StorePrefixes == {<< >>, <<"a">>, <<"a", "/">>, <<"a", "/", "/">>, <<"/">>}
StoreKeys == {<<"x">>, <<"c", "/", "0">>, <<"c", "/", "1">>, <<"/", "x">>}
ListArgs == {<< >>, <<"c", "/">>, <<"c", "/", "0">>, <<"x">>}
EarlierKeys == {<<"x">>, <<"a", "b", "/", "x">>, <<"a", "/", "c", "/", "0">>}
Contents == {1, 2}

\* R2Uploader::new over a bucket that holds some objects
StoreInit ==
    /\ BuilderInit
    /\ RemoteInit
    /\ arg = [op |-> "new"]
    /\ ret = [kind |-> "ok"]
    /\ TsInit
    /\ dl = NoDownload
    /\ r2 \in [prefix : StorePrefixes]
    /\ \E S \in SUBSET EarlierKeys : objects = [k \in S |-> 0]
    /\ gen = NoRange

StoreFrame ==
    UNCHANGED <<cog, memDates, diskDates, shape, chunks, pc, call, tcur, tasks, succ,
                result, pre, storeFailed, cogFailed, killed, faults, calls, rvars, dl,
                tsData, tsExisting, tsFiles, tsTasks, tspc, tsRun, r2, gen>>

UploadFile(key, data) ==
    /\ arg' = [op |-> "upload_file", key |-> key, data |-> data]
    /\ objects' = PutObject(objects, FullKey(r2.prefix, key), data)
    /\ ret' = [kind |-> "ok"]
    /\ StoreFrame

DownloadFile(key) ==
    /\ arg' = [op |-> "download_file", key |-> key]
    /\ ret' = GetObject(objects, FullKey(r2.prefix, key))
    /\ UNCHANGED objects
    /\ StoreFrame

DownloadBytes(key) ==
    /\ arg' = [op |-> "download_bytes", key |-> key]
    /\ ret' = GetObject(objects, FullKey(r2.prefix, key))
    /\ UNCHANGED objects
    /\ StoreFrame

ListPrefix(prefix) ==
    /\ arg' = [op |-> "list_prefix", prefix |-> prefix]
    /\ ret' = [kind |-> "keys",
               v |-> {RelativeKey(r2.prefix, k) :
                         k \in ListObjects(objects, FullKey(r2.prefix, prefix))}]
    /\ UNCHANGED objects
    /\ StoreFrame

UploadBytes(key, data) ==
    /\ arg' = [op |-> "upload_bytes", key |-> key, data |-> data]
    /\ objects' = PutObject(objects, FullKey(r2.prefix, key), data)
    /\ ret' = [kind |-> "ok"]
    /\ StoreFrame

StoreNext ==
    \/ \E key \in StoreKeys, data \in Contents : UploadFile(key, data)
    \/ \E key \in StoreKeys : DownloadFile(key)
    \/ \E key \in StoreKeys : DownloadBytes(key)
    \/ \E prefix \in ListArgs : ListPrefix(prefix)
    \/ \E key \in StoreKeys, data \in Contents : UploadBytes(key, data)

StoreSpec == StoreInit /\ [][StoreNext]_vars

\* ------------------------------------ download.rs: generate_date_range
\* The days are 0..NaiveDateMax, the last being NaiveDate::MAX.
NaiveDateMax == MaxDate + 1
Days == 0..NaiveDateMax

\* NaiveDate::succ_opt: None after the last day
SuccOpt(d) == IF d < NaiveDateMax THEN Some(d + 1) ELSE None

\* Option::unwrap_or
UnwrapOr(o, default) == IF o.kind = "some" THEN o.v ELSE default

\* the length from which the growth of dates is no longer followed
MaxRange == NaiveDateMax + 3

GenBegin(start, end) ==
    /\ gen.pc = "idle"
    /\ gen' = [pc |-> "loop", start |-> start, end |-> end, current |-> start,
               dates |-> << >>]
    /\ UNCHANGED <<cog, memDates, diskDates, shape, chunks, pc, call, tcur, tasks, succ,
                   result, pre, storeFailed, cogFailed, killed, faults, calls, rvars, dl, arg,
                   ret, tsData, tsExisting, tsFiles, tsTasks, tspc, tsRun, r2, objects>>

\* one pass of the loop body: push, the successor, the break
GenPush ==
    /\ gen.pc = "loop"
    /\ gen.current <= gen.end
    /\ Len(gen.dates) < MaxRange
    /\ LET next == UnwrapOr(SuccOpt(gen.current), gen.current)
       IN  gen' = [gen EXCEPT !.dates = Append(@, gen.current),
                              !.current = next,
                              !.pc = IF next = gen.start THEN "returned" ELSE "loop"]
    /\ UNCHANGED <<cog, memDates, diskDates, shape, chunks, pc, call, tcur, tasks, succ,
                   result, pre, storeFailed, cogFailed, killed, faults, calls, rvars, dl, arg,
                   ret, tsData, tsExisting, tsFiles, tsTasks, tspc, tsRun, r2, objects>>

\* the loop condition is false: dates is returned
GenReturn ==
    /\ gen.pc = "loop"
    /\ gen.current > gen.end
    /\ gen' = [gen EXCEPT !.pc = "returned"]
    /\ UNCHANGED <<cog, memDates, diskDates, shape, chunks, pc, call, tcur, tasks, succ,
                   result, pre, storeFailed, cogFailed, killed, faults, calls, rvars, dl, arg,
                   ret, tsData, tsExisting, tsFiles, tsTasks, tspc, tsRun, r2, objects>>

RangeNext ==
    \/ \E start \in Days, end \in Days : GenBegin(start, end)
    \/ GenPush
    \/ GenReturn

RangeSpec == Init /\ [][RangeNext]_vars

\* ------------------------------------------------------------------ claims
Returned == pc = "done"
ReturnedOk == pc = "done" /\ result.kind = "ok"
\* no I/O failure so far: every process_cogs call so far has succeeded
NoFaultSoFar == faults = 0

StoreUnchanged ==
    /\ diskDates = pre.dates
    /\ shape = pre.shape
    /\ chunks = pre.chunks

\* C1 (as claimed). Append preservation: after a successful
\* process_cogs(append = true), in a run of successful calls, the slice at
\* the pre-call position of every date that was in the axis before the call
\* is what it was before the call.
C1_AppendPreservation ==
    (ReturnedOk /\ call.append /\ NoFaultSoFar)
        => \A t \in 0..(Len(pre.mem) - 1) : Slice(chunks, t) = Slice(pre.chunks, t)

\* the new date of an append that sorts at or before the last existing date
ViolatesPrecondition ==
    /\ call.append
    /\ pre.mem # << >>
    /\ \E d \in AllDates(call.dir) :
           d \notin Range(pre.mem) /\ d <= Max(Range(pre.mem))

\* C2 (as claimed). Precondition check: an append that holds a new date not
\* after the maximum existing date returns an error and leaves the array
\* metadata, every chunk, dates.json and the axis in memory unchanged.
C2_PreconditionCheck ==
    (Returned /\ ViolatesPrecondition /\ NoFaultSoFar)
        => (result.kind = "err" /\ StoreUnchanged /\ memDates = pre.mem)

\* the non-zero pixels of the COG of d are in the stored chunk ci of its
\* time chunk, in the slab of its axis position
HoldsSlice(d, ci) ==
    LET staged == Staged(d, DateToIndex(call.combined, d), ChunkYOf(ci), ChunkXOf(ci))
        stored == RetrieveChunk(chunks, ChunkKeyOf(d, ci))
    IN  \A i \in 1..ChunkLen : staged[i] # 0 => stored[i] = staged[i]

\* C3 (as claimed). No lost update: when two COGs of one call lie in the same
\* time chunk and both have a positive pixel in the same spatial chunk, the
\* stored chunk holds both slices once the call has returned (no store having
\* failed).
C3_NoLostUpdate ==
    (ReturnedOk /\ ~storeFailed)
        => \A d \in FilesToProcess(call), e \in FilesToProcess(call), ci \in SpatialChunks :
              (/\ d # e
               /\ TimeChunkOf(call, d) = TimeChunkOf(call, e)
               /\ HasData(d, ChunkYOf(ci), ChunkXOf(ci))
               /\ HasData(e, ChunkYOf(ci), ChunkXOf(ci)))
                  => (HoldsSlice(d, ci) /\ HoldsSlice(e, ci))

\* C4 (as claimed). NODATA masking: after successful calls, every stored
\* value array[t, y, x] with t on the axis is 0 or the non-NODATA pixel
\* (y, x) of the COG of the date at position t.
C4_NodataMasking ==
    (ReturnedOk /\ NoFaultSoFar)
        => \A t \in 0..(Len(DiskAxis) - 1), y \in Rows, x \in Cols :
              \/ ReadArray(chunks, t, y, x) = 0
              \/ /\ ReadArray(chunks, t, y, x) = Pixel(DiskAxis[t + 1], y, x)
                 /\ ReadArray(chunks, t, y, x) # NODATA_VALUE

\* C5 (as claimed). Pixel fidelity: after a successful call, every pixel of
\* every COG the call ingested is stored at the COG's axis position, NODATA
\* as 0.
C5_PixelFidelity ==
    (ReturnedOk /\ NoFaultSoFar)
        => \A d \in FilesToProcess(call), y \in Rows, x \in Cols :
              ReadArray(chunks, DateToIndex(call.combined, d), y, x)
                  = Normalize(Pixel(d, y, x))

\* C6 (as claimed). Axis monotonicity: after any process_cogs call the axis
\* in dates.json and the axis in memory are equal, strictly ascending and
\* free of duplicates.
C6_AxisMonotonicity ==
    Returned
        => /\ diskDates.st # "partial"
           /\ DiskAxis = memDates
           /\ IsStrictlyAscending(memDates)

\* the time extent of the array, 0 when no array has been created
TimeExtent(sh) == IF sh = -1 THEN 0 ELSE sh

\* C7 (as claimed). Shape coherence: after every successful call the time
\* extent of the array is the length of the persisted axis, and an append
\* never decreases it.
C7_ShapeCoherence ==
    ReturnedOk
        => /\ diskDates.st # "partial"
           /\ TimeExtent(shape) = Len(DiskAxis)
           /\ call.append => TimeExtent(shape) >= TimeExtent(pre.shape)

SecondRun == call.secondRun

\* no I/O failure was met during the running (or last) call
NoFaultInCall == faults = pre.faults

\* C8. Idempotence: the second of two successive process_cogs(D, append =
\* true) leaves dates.json, the array shape and every chunk as the first left
\* them, and returns 0 (unless the listing of D itself fails).
C8_Idempotence ==
    (Returned /\ SecondRun)
        => /\ StoreUnchanged
           /\ memDates = pre.mem
           /\ NoFaultInCall => result = Ok(0)

\* a second run after a first run that ingested COGs with data
C8_Witness ==
    /\ Returned
    /\ SecondRun
    /\ result = Ok(0)
    /\ call.dir # {}
    /\ AllDates(call.dir) \subseteq Range(DiskAxis)
    /\ \E k \in ChunkKeys : chunks[k] # << >>

\* C9 (as claimed). A chunk store failure is fatal to the batch: the call
\* returns an error and dates.json is not written.
C9_StoreFailureFatal ==
    (Returned /\ storeFailed) => (result.kind = "err" /\ diskDates = pre.dates)

\* C10 (as claimed). A failing batch leaves the axis as it was, on disk and
\* in memory.
C10_FailingBatchKeepsAxis ==
    (Returned /\ result.kind = "err") => (memDates = pre.mem /\ diskDates = pre.dates)

\* every positive pixel of the COG of d is stored at the position of d in axis
IngestedAt(ch, axis, d) ==
    \A y \in Rows, x \in Cols :
        Pixel(d, y, x) > 0 => ReadArray(ch, DateToIndex(axis, d), y, x) = Pixel(d, y, x)

\* the axis the call is to persist: the sorted union of the existing and the
\* input dates (the sorted input dates when not appending)
ExpectedAxis ==
    IF call.append THEN SetToSeq(Range(pre.mem) \cup AllDates(call.dir))
    ELSE SetToSeq(AllDates(call.dir))

\* C11 (as claimed). After a successful process_cogs that had new dates,
\* dates.json holds the sorted union of the existing and the input dates, and
\* the chunks hold the COG data of every date the call added to the axis: no
\* date is in the axis whose COG was not completely ingested.
C11_SuccessPostCondition ==
    (ReturnedOk /\ call.newDates # << >>)
        => /\ diskDates.st = "ok"
           /\ DiskAxis = ExpectedAxis
           /\ \A d \in FilesToProcess(call) :
                  d \in Range(DiskAxis) => IngestedAt(chunks, DiskAxis, d)

\* the failures met during the running (or last) call are COG open or read
\* failures, one per failed COG
CogFailureOnly ==
    /\ cogFailed # {}
    /\ ~storeFailed
    /\ faults - pre.faults = Cardinality(cogFailed)

\* no other COG of the call has a positive pixel in chunk ci of the time
\* chunk of e
Alone(e, ci) ==
    \A d \in FilesToProcess(call) \ {e} :
        ~(TimeChunkOf(call, d) = TimeChunkOf(call, e)
          /\ HasData(d, ChunkYOf(ci), ChunkXOf(ci)))

C19_AtomicDatesJson == diskDates.st # "partial"

\* C20 (as claimed). A kill is clean: after a kill inside process_cogs
\* dates.json holds the pre-call axis, and a later successful
\* process_cogs(append = true) (the kill being the only failure) yields an
\* array in which every stored value of a slice on the axis is 0 or the
\* non-NODATA pixel of the COG of that slice's date.
C20_KillIsClean ==
    /\ pc = "killed" => diskDates = pre.dates
    /\ (ReturnedOk /\ call.append /\ killed /\ faults = 1)
           => \A t \in 0..(Len(DiskAxis) - 1), y \in Rows, x \in Cols :
                 LET v == ReadArray(chunks, t, y, x)
                 IN  v = 0 \/ (v = Pixel(DiskAxis[t + 1], y, x) /\ v # NODATA_VALUE)

\* ------------------------------------------------- claims on the remote build
RemoteReturned == rpc = "returned"
RemoteReturnedOk == rpc = "returned" /\ rres = "ok"

\* C13 (as claimed). Remote upload order: dates.json is the last object
\* written, so at every point of the upload (where the run may be cancelled
\* or fail) a dates.json already uploaded has every chunk object and the
\* array metadata of the staging directory uploaded before it.
C13_DatesJsonLast ==
    DatesObj \in run.put
        => \A i \in 1..Len(upq) : upq[i].kind \notin {"chunk", "meta"}

\* process_single_cog of the COG of d at its position in combined, alone
IngestOne(ch, combined, d) ==
    LET t == DateToIndex(combined, d)
    IN  [k \in ChunkKeys |->
            IF k[1] = t \div CHUNK_TIME /\ HasData(d, k[2], k[3])
            THEN Merge(Staged(d, t, k[2], k[3]), RetrieveChunk(ch, k))
            ELSE ch[k]]

\* the tasks of the dates ds one after the other
RECURSIVE IngestSeq(_, _, _)
IngestSeq(ch, combined, ds) ==
    IF ds = << >> THEN ch
    ELSE IngestSeq(IngestOne(ch, combined, Head(ds)), combined, Tail(ds))

\* the store after load_existing and process_cogs(dir, append = true) without
\* failure, the tasks not overlapping in time
LocalAppend(store, dir) ==
    LET existing == store.dates.v
        new == NewDates(AllDates(dir), existing, TRUE)
        combined == CombinedDates(existing, new, TRUE)
    IN  IF new = << >> THEN store
        ELSE [dates |-> [st |-> "ok", v |-> combined],
              shape |-> ShapeAfterAlloc(store.shape, existing, combined, TRUE),
              chunks |-> IngestSeq(store.chunks, combined, new)]

\* no two COGs of the directory that are new to the axis have a positive
\* pixel in the same spatial chunk: the tasks of a call cannot race
NoSharedChunk(dir, existing) ==
    \A d \in dir \ Range(existing), e \in dir \ Range(existing), ci \in SpatialChunks :
        (HasData(d, ChunkYOf(ci), ChunkXOf(ci)) /\ HasData(e, ChunkYOf(ci), ChunkXOf(ci)))
            => d = e

\* C14 (as claimed). Remote append equals local append: a remote append of
\* directory D, begun without a staging directory, that returns Ok (no COG
\* and no chunk store having failed) leaves the remote store as
\* process_cogs(D, append = true) leaves a local store that was equal to the
\* remote store (stated for directories whose new COGs share no chunk, for
\* which the local result is unique).
C14_RemoteEqualsLocal ==
    (/\ RemoteReturnedOk
     /\ run.append
     /\ ~rpre.tmp
     /\ ~storeFailed
     /\ cogFailed = {}
     /\ rpre.remote.dates.st # "partial"
     /\ NoSharedChunk(run.dir, rpre.remote.dates.v))
        => Remote = LocalAppend(rpre.remote, run.dir)

\* the position of d in the sorted union of the two sets of dates
PositionInUnion(existing, new, d) == Cardinality({e \in existing \cup new : e < d})

\* { p(d) / CHUNK_TIME : d in new }
AffectedSet(existing, new) ==
    {PositionInUnion(existing, new, d) \div CHUNK_TIME : d \in new}

C16_RemoteFrame ==
    (run.append /\ ~rpre.tmp)
        => LET affected == AffectedSet(Range(rpre.remote.dates.v),
                                       run.dir \ Range(rpre.remote.dates.v))
           IN  /\ \A k \in run.fetched : k[1] \in affected
               /\ \A k \in ChunkKeys : ChunkObj(k) \in run.put => k[1] \in affected

\* C17 (as claimed). The staging directory is scoped: it does not exist when
\* the remote build has returned, on whatever path.
C17_StagingScoped == RemoteReturned => ~tmp

\* C18 (as claimed). A transport error while fetching the dates.json of a
\* store that has dates aborts the remote append (begun without a staging
\* directory): the dates.json and the array metadata of the store are not
\* replaced by those of a newly created store, they stay as they were.
C18_TransportErrorAborts ==
    (run.fetchErr /\ rpre.remote.dates.st = "ok" /\ ~rpre.tmp)
        => /\ rDates = rpre.remote.dates
           /\ rShape = rpre.remote.shape


\* the output path held no store when the call began
FreshBefore ==
    /\ pre.dates.st = "absent"
    /\ pre.shape = -1
    /\ StoredKeys(pre.chunks) = {}
    /\ pre.mem = << >>

\* the chunk buffer holding v at offset (to, yo, xo) and 0 everywhere else
OnePixelChunk(to, yo, xo, v) ==
    [i \in 1..ChunkLen |->
        IF i = to * CHUNK_Y * CHUNK_X + yo * CHUNK_X + xo + 1 THEN v ELSE 0]

\* C21: a COG at axis position t with exactly one positive pixel, at (y, x),
\* and NODATA elsewhere, ingested into a fresh store (the other COGs of the
\* batch, if any, being all NODATA), makes exactly one chunk write: when its
\* task ends it has stored one chunk, and after the call the only chunk of
\* the store is (t div CHUNK_TIME, y div CHUNK_Y, x div CHUNK_X), holding the
\* pixel value at offset (t mod CHUNK_TIME, y mod CHUNK_Y, x mod CHUNK_X) and
\* 0 everywhere else.
C21_SinglePixelChunk ==
    \A d \in Dates :
        (cog[d] \in SinglePixelPatterns /\ FreshBefore /\ d \in FilesToProcess(call))
            => /\ (d \in DOMAIN tasks /\ tasks[d].st = "ok") => tasks[d].n = 1
               /\ ReturnedOk =>
                     LET t == DateToIndex(DiskAxis, d)
                         y == PixelY(cog[d])
                         x == PixelX(cog[d])
                         key == <<t \div CHUNK_TIME, y \div CHUNK_Y, x \div CHUNK_X>>
                     IN  /\ StoredKeys(chunks) = {key}
                         /\ chunks[key] = OnePixelChunk(t % CHUNK_TIME, y % CHUNK_Y,
                                                         x % CHUNK_X, Pixel(d, y, x))

\* the pixel is in the last row and column of the raster, in the narrower
\* east chunk, and the COG is at an odd axis position
C21_Witness ==
    \E d \in Dates :
        /\ cog[d] = "P12"
        /\ FreshBefore
        /\ ReturnedOk
        /\ d \in FilesToProcess(call)
        /\ DateToIndex(DiskAxis, d) = 1
        /\ chunks[<<0, 0, 1>>] # << >>

\* every COG the call ingests is all NODATA
OnlyNodataCogs == \A e \in FilesToProcess(call) : cog[e] = "N"

\* C22: a COG whose pixels are all NODATA causes no chunk write (its task
\* ends with no chunk stored, and a call ingesting only such COGs leaves
\* every chunk as it was), its date is in DateAxis after the call, once, and
\* DateAxis is otherwise what the mode of the call defines: the sorted union
\* of the axis before the call and the dates of the directory for an append,
\* the sorted dates of the directory otherwise.
C22_AllNodataCog ==
    \A d \in Dates :
        (cog[d] = "N" /\ d \in FilesToProcess(call))
            => /\ (d \in DOMAIN tasks /\ tasks[d].st = "ok") => tasks[d].n = 0
               /\ (pc \in {"tasks", "save", "done"} /\ OnlyNodataCogs) => chunks = pre.chunks
               /\ ReturnedOk =>
                     /\ Cardinality({i \in 1..Len(DiskAxis) : DiskAxis[i] = d}) = 1
                     /\ DiskAxis = ExpectedAxis

\* an append of one all-NODATA COG to a store that holds a chunk: the date
\* is inserted and the chunk is as it was
C22_Witness ==
    \E d \in Dates :
        /\ cog[d] = "N"
        /\ ReturnedOk
        /\ call.append
        /\ FilesToProcess(call) = {d}
        /\ StoredKeys(pre.chunks) # {}
        /\ Len(pre.dates.v) >= 1
        /\ Len(DiskAxis) = Len(pre.dates.v) + 1

StrSuffixModeled == <<"S", "l", "L", "0", "1", "T", "0", "0", "2", "4">>
ValidNameDates == {<<"2", "0", "2", "3", "1", "2", "0", "1", "0", "5">>,
                   <<"2", "0", "2", "4", "0", "2", "2", "9", "2", "3">>}

\* a name of the form us_ssmv<5 digits><suffix>TTNATS<YYYYMMDDHH>... with
\* the extension .dat or .dat.gz, the digits being those of a product and
\* the date and the hour being valid
WellFormedName(p) ==
    /\ p.region = StrUs
    /\ Len(p.digits) = 5
    /\ DigitsValue(p.digits) % 10000 \in ProductCodes
    /\ p.marker = StrTtnats
    /\ p.date \in ValidNameDates
    /\ p.ext \in {StrDat, StrDatGz}

\* what the name of those parts stands for
FileOfName(p) ==
    [date |-> <<DigitsValue(SubSeq(p.date, 1, 4)), DigitsValue(SubSeq(p.date, 5, 6)),
                DigitsValue(SubSeq(p.date, 7, 8))>>,
     product_id |-> DigitsValue(p.digits) % 10000,
     filename |-> NameOf(p),
     is_model |-> (p.suffix = StrSuffixModeled),
     hour |-> DigitsValue(SubSeq(p.date, 9, 10))]

Decoded == ret # NotCalled /\ arg \in NameParts

\* C23: the decoder accepts every name us_ssmv<5 digits><suffix>TTNATS
\* <YYYYMMDDHH>... ending in .dat or .dat.gz, observed (tS__T0001) or
\* modeled (SlL01T0024), and returns the product of the low four digits,
\* the date, the hour, and is_model = TRUE exactly for the names with Sl.
C23_DecodesPayloadNames ==
    (Decoded /\ WellFormedName(arg)) => ret = Some(FileOfName(arg))

\* the ten characters after TTNATS are the digits of a calendar date and of
\* an hour of the day
IsDateAndHour(t) ==
    /\ Len(t) = 10
    /\ \A i \in 1..10 : IsAsciiDigit(t[i])
    /\ IsDate(DigitsValue(SubSeq(t, 1, 4)), DigitsValue(SubSeq(t, 5, 6)),
              DigitsValue(SubSeq(t, 7, 8)))
    /\ DigitsValue(SubSeq(t, 9, 10)) <= 23

\* the characters of a string (a two-byte character counts once)
CharLen(t) == Cardinality({i \in 1..Len(t) : ~IsContinuationByte(t[i])})

\* the first ten characters of a string
FirstTenChars(t) ==
    LET ends == {n \in 0..Len(t) : CharLen(SubSeq(t, 1, n)) = 10 /\ IsCharBoundary(t, n)}
    IN  SubSeq(t, 1, Min(ends))

\* one of the deviations for which the decoder returns none
Deviates(p) ==
    \/ p.ext \notin {StrDat, StrDatGz}
    \/ p.region # StrUs
    \/ \A i \in 1..Len(Split(StrSsmv \o p.digits \o p.suffix, "_")[1]) :
           ~IsAsciiDigit(Split(StrSsmv \o p.digits \o p.suffix, "_")[1][i])
    \/ (p.digits # << >> /\ DigitsValue(p.digits) % 10000 \notin ProductCodes)
    \/ p.marker # StrTtnats
    \/ CharLen(p.date \o p.tail) < 10
    \/ (CharLen(p.date \o p.tail) >= 10 /\ ~IsDateAndHour(FirstTenChars(p.date \o p.tail)))

\* C24: the decoder is total. For every name it returns a value or none and
\* never panics, and it returns none when the extension is not .dat or
\* .dat.gz, the region is not us, the product token has no digits or an
\* unknown code, TTNATS is missing, fewer than ten characters follow TTNATS,
\* or they are not the digits of a valid calendar date and hour.
C24_DecoderTotal ==
    Decoded => /\ ret.kind \in {"some", "none"}
               /\ Deviates(arg) => ret = None

Parsed == ret # NotCalled /\ arg \in DestParts

\* the prefix of <scheme><bucket>[/<prefix>]: empty when none is given
PrefixOf(p) == IF p.rest = << >> THEN << >> ELSE SubSeq(p.rest, 2, Len(p.rest))

\* C25: the destination parser maps r2://bucket/prefix and s3://bucket/prefix
\* to the remote destination of that bucket and prefix (the empty prefix when
\* none is given) and every other string to a local path.
C25_DestinationParser ==
    Parsed => IF arg.scheme \in {StrR2, StrS3}
              THEN ret = R2(arg.bucket, PrefixOf(arg))
              ELSE ret = Local(DestOf(arg))

\* YYYYMMDD as a number
DateNumber(t) == t[1] * 10000 + t[2] * 100 + t[3]

\* C26: the bounding box is a function of the calendar date only. Every
\* date strictly before 2013-10-01 gets the pre-2013 box and every date on
\* or after 2013-10-01 gets the post-2013 box.
C26_BboxByDate ==
    (ret # NotCalled /\ arg \in CalendarDates)
        => ret = IF DateNumber(arg) < 20131001 THEN BBOX_PRE_2013 ELSE BBOX_POST_2013

\* the first day of the shifted coordinates
C26_Witness ==
    /\ arg \in CalendarDates
    /\ arg = <<2013, 10, 1>>
    /\ ret = BBOX_POST_2013

\* the number of times e occurs in the vector
Occurrences(data, e) == Cardinality({i \in 1..Len(data) : data[i] = e})

\* the task of f went through the grid points (it was not passed over as
\* already processed, and it returned Ok)
Sampled(f) == tsTasks[f].st = "ok" /\ DateOfFile(f) \notin tsExisting

\* what the task of f appends to the cell of g, if anything
Hits(f, g) ==
    /\ InRaster(PointPixel(g))
    /\ Pixel(DateOfFile(f), PointPixel(g)[1], PointPixel(g)[2]) # NODATA_VALUE
SampleOf(f, g) ==
    Entry(DateOfFile(f), Pixel(DateOfFile(f), PointPixel(g)[1], PointPixel(g)[2]))

\* the entries the cell of g had when the parallel loop began
LoadedData(g) == IF tsRun.append THEN OrDefault(tsRun.before, g) ELSE << >>

\* C27: per-key appends are atomic. When the parallel loop of
\* process_cogs_parallel has joined (no I/O failure having occurred), under
\* every interleaving of the tasks the series of each grid cell holds the
\* entries it had before and every (date, value) entry each task appended
\* for the cell, each as often as it was appended, and nothing else.
C27_AtomicAppends ==
    (tspc = "joined" /\ faults = 0)
        => \A g \in GridIds :
               LET data == OrDefault(tsData, g)
                   appended == {SampleOf(f, g) : f \in {h \in DOMAIN tsTasks : Sampled(h) /\ Hits(h, g)}}
               IN  \A e \in Range(data) \cup Range(LoadedData(g)) \cup appended :
                       Occurrences(data, e)
                           = Occurrences(LoadedData(g), e)
                               + Cardinality({f \in DOMAIN tsTasks :
                                     Sampled(f) /\ Hits(f, g) /\ SampleOf(f, g) = e})

\* three tasks have appended to one cell, the entry of date 2 between the
\* two entries of date 1
C27_Witness ==
    /\ tspc = "joined"
    /\ faults = 0
    /\ "g2" \in DOMAIN tsData
    /\ Len(tsData["g2"]) = 3
    /\ tsData["g2"][1].date = 1
    /\ tsData["g2"][2].date = 2
    /\ tsData["g2"][3].date = 1

\* C28: every grid file written by write_output has its series strictly
\* ascending by date, hence with at most one entry per date, whatever the
\* order in which the parallel tasks appended the entries and however often
\* a date was appended to a cell.
C28_GridFilesAscending ==
    \A g \in DOMAIN tsFiles :
        \A i \in 1..(Len(tsFiles[g]) - 1) : tsFiles[g][i].date < tsFiles[g][i + 1].date

\* a cell to which date 2 was appended before date 1, and date 1 twice, has
\* been written
C28_Witness ==
    /\ tspc = "written"
    /\ "g2" \in DOMAIN tsData
    /\ Len(tsData["g2"]) = 3
    /\ tsData["g2"][1].date = 2
    /\ Len(tsFiles["g2"]) = 2

\* the grid files are as they were when the extraction began
SameGridFiles == tsFiles = tsRun.before

\* C29: sampling is idempotent in append mode. After load_existing a task
\* whose COG has a date of existing_dates appends nothing and returns 0,
\* and an extraction with append of the directory just extracted with
\* append (neither with an I/O failure) leaves every grid file as the first
\* extraction wrote it.
C29_SamplingIdempotent ==
    /\ \A f \in DOMAIN tsTasks :
           (tsRun.append /\ DateOfFile(f) \in tsExisting)
               => /\ tsTasks[f] = SkippedTsTask
                  /\ tspc = "joined" =>
                        \A g \in GridIds :
                            Occurrences(OrDefault(tsData, g), SampleOf(f, g))
                                = Occurrences(LoadedData(g), SampleOf(f, g))
    /\ (tspc = "written" /\ tsRun.second /\ faults = 0) => SameGridFiles

\* the second extraction of a directory of two dates, each with an entry
\* in a grid file, has been written
C29_Witness ==
    /\ tspc = "written"
    /\ tsRun.second
    /\ faults = 0
    /\ Cardinality({DateOfFile(f) : f \in tsRun.dir}) = 2
    /\ tsRun.total = 0
    /\ \E g \in DOMAIN tsFiles : Len(tsFiles[g]) = 2

\* C30: a download that keeps failing is retried 3 times after the first
\* attempt, with 2^n seconds slept before retry number n; the first
\* successful response is returned without a further attempt; and when
\* every attempt has failed the call returns the last error.
C30_RetryThreeTimes ==
    /\ \A n \in 1..Len(dl.slept) : dl.slept[n] = Pow2(n)
    /\ (dl.pc = "returned" /\ dl.res.kind = "some")
           => /\ dl.tries = Len(dl.errors) + 1
              /\ Len(dl.slept) = Len(dl.errors)
    /\ (dl.pc = "returned" /\ dl.res.kind = "err")
           => /\ dl.tries = 1 + 3
              /\ Len(dl.slept) = 3
              /\ Len(dl.errors) = dl.tries
              /\ dl.res.e = dl.errors[Len(dl.errors)]

\* the parallel loop over a group begins with this step
GroupBegins == pc' = "tasks" /\ (pc # "tasks" \/ tcur' # tcur)

\* the parallel loop over the running group ends with this step
GroupEnds == pc = "tasks" /\ (pc' # "tasks" \/ tcur' # tcur)

\* C31: the time-chunk groups are processed one after the other in ascending
\* order: the tasks that run at any time are all of one time chunk; the
\* first group to begin is the lowest of the call; a group ends only when
\* every one of its tasks has finished, and the group that begins then is the
\* next higher one of the call, none being passed over; the loop ends only
\* after the highest group.  Hence no task of a group starts before every
\* task of every lower group has finished.
C31_GroupsSequential ==
    [][/\ pc' = "tasks" => \A d \in DOMAIN tasks' : TimeChunkOf(call', d) = tcur'
       /\ (pc = "tasks" /\ pc' = "tasks" /\ tcur' = tcur) => DOMAIN tasks' = DOMAIN tasks
       /\ GroupEnds => \A d \in DOMAIN tasks : tasks[d].st # "run"
       /\ (GroupBegins /\ pc # "tasks") =>
              /\ tcur' \in GroupKeys(call')
              /\ \A g \in GroupKeys(call') : tcur' <= g
              /\ DOMAIN tasks' = {d \in FilesToProcess(call') : TimeChunkOf(call', d) = tcur'}
       /\ (GroupBegins /\ pc = "tasks") =>
              /\ call' = call
              /\ tcur' \in GroupKeys(call)
              /\ tcur' > tcur
              /\ \A g \in GroupKeys(call) : ~(tcur < g /\ g < tcur')
              /\ DOMAIN tasks' = {d \in FilesToProcess(call) : TimeChunkOf(call, d) = tcur'}
       /\ (GroupEnds /\ pc' # "tasks") => \A g \in GroupKeys(call) : g <= tcur
      ]_vars

\* the tasks of the second group of a call of two groups run, two files
\* having been handed to the first group
C31_Witness ==
    /\ pc = "tasks"
    /\ GroupKeys(call) = {0, 1}
    /\ tcur = 1
    /\ Cardinality({d \in FilesToProcess(call) : TimeChunkOf(call, d) = 0}) = 2
    /\ \E d \in DOMAIN tasks : tasks[d].st = "run"

\* the time chunks that hold the final axis position of a date the call
\* inserts
InsertedTimeChunks ==
    {(DateToIndex(call.combined, d)) \div CHUNK_TIME : d \in Range(call.newDates)}

\* C32: frame of process_cogs(append = true), DateAxis being the axis of the
\* builder when the call begins: at every point of the call and after it,
\* whether it fails or not, every chunk object of a time chunk that holds the
\* final axis position of no inserted date is as it was when the call began
\* (dates.json, the array metadata and the chunks of the other time chunks
\* are all that can differ), and no task runs for a COG whose date was in
\* DateAxis already.
C32_AppendFrame ==
    (call.append /\ pc \in {"tasks", "save", "done"})
        => /\ \A k \in ChunkKeys : k[1] \notin InsertedTimeChunks => chunks[k] = pre.chunks[k]
           /\ Range(call.newDates) \cap Range(pre.mem) = {}
           /\ \A d \in DOMAIN tasks : d \notin Range(pre.mem)
           /\ \A d \in Range(pre.mem) : d \notin FilesToProcess(call)

\* an append of a directory that holds again the COGs of the store has
\* inserted one date into the second time chunk and written a chunk there,
\* while the first time chunk, which holds chunks, is outside the frame
C32_Witness ==
    /\ call.append
    /\ pc = "done"
    /\ result.kind = "ok"
    /\ Len(pre.mem) = 2
    /\ Range(pre.mem) \subseteq call.dir
    /\ InsertedTimeChunks = {1}
    /\ \E k \in ChunkKeys : k[1] = 0 /\ pre.chunks[k] # << >>
    /\ \E k \in ChunkKeys : k[1] = 1 /\ chunks[k] # << >> /\ pre.chunks[k] = << >>

\* the task of d loads a chunk and merges with this step
LoadsChunk(d) ==
    /\ d \in DOMAIN tasks /\ d \in DOMAIN tasks'
    /\ tasks[d].st = "run" /\ tasks[d].phase = "read"
    /\ tasks'[d].st = "run" /\ tasks'[d].phase = "store"

\* the task of d stores a chunk with this step
StoresChunk(d) ==
    /\ d \in DOMAIN tasks /\ d \in DOMAIN tasks'
    /\ tasks[d].st = "run" /\ tasks[d].phase = "store"
    /\ tasks'[d].st = "run" /\ tasks'[d].phase = "read"

\* the positions of a chunk buffer that belong to the time offset of axis
\* position t
SlabOf(t) ==
    {i \in 1..ChunkLen : (i - 1) \div (CHUNK_Y * CHUNK_X) = t % CHUNK_TIME}

\* C33: the chunk merge policy.  When the task of a COG loads chunk
\* (time_chunk, chunk_y, chunk_x) and the chunk exists, the buffer it goes on
\* to store holds at every position the staged value if that is not zero and
\* the existing value otherwise; when the chunk is absent it holds the staged
\* buffer; the store writes that buffer to the chunk.  Hence the store leaves
\* every time slice of the chunk other than that of the new time offset as
\* it was written before.
C33_MergePolicy ==
    [][\A d \in Dates :
          /\ LoadsChunk(d) =>
                LET ci == tasks'[d].ci
                    t == DateToIndex(call.combined, d)
                    key == <<t \div CHUNK_TIME, ChunkYOf(ci), ChunkXOf(ci)>>
                    staged == Staged(d, t, ChunkYOf(ci), ChunkXOf(ci))
                    existing == chunks[key]
                IN  /\ existing = << >> => tasks'[d].buf = staged
                    /\ existing # << >> =>
                          \A i \in 1..ChunkLen :
                              tasks'[d].buf[i] =
                                  IF staged[i] # 0 THEN staged[i] ELSE existing[i]
          /\ StoresChunk(d) =>
                LET ci == tasks[d].ci
                    t == DateToIndex(call.combined, d)
                    key == <<t \div CHUNK_TIME, ChunkYOf(ci), ChunkXOf(ci)>>
                IN  /\ chunks' = [chunks EXCEPT ![key] = tasks[d].buf]
                    /\ chunks[key] # << >> =>
                          \A i \in (1..ChunkLen) \ SlabOf(t) : chunks'[key][i] = chunks[key][i]
      ]_vars

\* the store process_cogs(dir, append = false) leaves on an empty output
\* path, without failure, the tasks not overlapping in time
FreshBuild(dir) ==
    LET combined == CombinedDates(<< >>, NewDates(AllDates(dir), << >>, FALSE), FALSE)
    IN  [dates |-> [st |-> "ok", v |-> combined],
         shape |-> Len(combined),
         chunks |-> IngestSeq(NoStore.chunks, combined, combined)]

\* C34: a non-append build depends only on its input: after a successful
\* process_cogs(D, append = false), met by no failure, on an output path that
\* held a store built from other COGs, dates.json, the array shape and every
\* chunk are those the same call leaves on an empty output path (stated for
\* directories whose COGs share no chunk, for which that result is unique).
C34_NonAppendRebuild ==
    (/\ ReturnedOk
     /\ ~call.append
     /\ call.newDates # << >>
     /\ NoFaultInCall
     /\ pre.dates.st = "ok"
     /\ Range(pre.dates.v) # AllDates(call.dir)
     /\ StoredKeys(pre.chunks) # {}
     /\ NoSharedChunk(call.dir, << >>))
        => /\ diskDates = FreshBuild(call.dir).dates
           /\ shape = FreshBuild(call.dir).shape
           /\ chunks = FreshBuild(call.dir).chunks

\* C35: each task of a process_cogs call has an axis position of its own: no
\* two of the tasks the call is to run are given the same position, whatever
\* the directory, also when it holds several snow_depth .tif files that
\* decode to the same date.
C35_UniqueAxisPosition ==
    ret.kind = "tasks"
        => \A a \in ret.v, b \in ret.v : a.idx = b.idx => a = b

\* the windows of the raster of width w and height h that hold pixel (y, x)
WindowsHolding(w, h, y, x) ==
    {c \in (0..(NumChunksOf(h, CHUNK_Y) - 1)) \X (0..(NumChunksOf(w, CHUNK_X) - 1)) :
        /\ c[1] * CHUNK_Y <= y /\ y < c[1] * CHUNK_Y + ReadExtent(h, CHUNK_Y, c[1])
        /\ c[2] * CHUNK_X <= x /\ x < c[2] * CHUNK_X + ReadExtent(w, CHUNK_X, c[2])}

\* C36: the chunk windows are clamped and cover the raster: for a raster of
\* width W and height H, the window read for (chunk_y, chunk_x) of
\* ceil(H / CHUNK_Y) x ceil(W / CHUNK_X) is not empty and does not extend
\* past the raster edge; every pixel belongs to exactly one window; row r of
\* the window is in the staged buffer from time_offset * CHUNK_Y * CHUNK_X
\* + r * CHUNK_X on; and every other position of the staged buffer, those of
\* an edge chunk outside the raster included, is 0.
C36_WindowsClampedAndCover ==
    ret.kind = "window"
        => /\ ret.read_height >= 1 /\ ret.start_y + ret.read_height <= arg.h
           /\ ret.read_width >= 1 /\ ret.start_x + ret.read_width <= arg.w
           /\ NumChunksOf(arg.h, CHUNK_Y) * CHUNK_Y >= arg.h
           /\ (NumChunksOf(arg.h, CHUNK_Y) - 1) * CHUNK_Y < arg.h
           /\ NumChunksOf(arg.w, CHUNK_X) * CHUNK_X >= arg.w
           /\ (NumChunksOf(arg.w, CHUNK_X) - 1) * CHUNK_X < arg.w
           /\ \A y \in 0..(arg.h - 1), x \in 0..(arg.w - 1) :
                  Cardinality(WindowsHolding(arg.w, arg.h, y, x)) = 1
           /\ \A i \in 1..ChunkLen :
                  LET rel == (i - 1) - (arg.t % CHUNK_TIME) * CHUNK_Y * CHUNK_X
                      r == rel \div CHUNK_X
                      c == rel % CHUNK_X
                  IN  ret.chunk_data[i] =
                          IF rel >= 0 /\ r < ret.read_height /\ c < ret.read_width
                          THEN RasterPixel(arg.w, ret.start_y + r, ret.start_x + c)
                          ELSE 0

\* the window of the south-east corner chunk of a raster that ends inside
\* it in both directions, staged at the second time offset
C36_Witness ==
    /\ ret.kind = "window"
    /\ arg.h = 2 * CHUNK_Y - 1
    /\ arg.w = 2 * CHUNK_X + 1
    /\ arg.t % CHUNK_TIME = 1
    /\ ret.chunk_y = 1 /\ ret.read_height = CHUNK_Y - 1
    /\ ret.chunk_x = 2 /\ ret.read_width = 1

\* the string without its trailing slashes
WithoutTrailingSlashes(p) ==
    SubSeq(p, 1, Max({0} \cup {i \in 1..Len(p) : p[i] # "/"}))

\* the prefix-joining rule
Joined(prefix, key) ==
    IF prefix = << >> THEN key
    ELSE WithoutTrailingSlashes(prefix) \o <<"/">> \o key

\* C37: one prefix-joining rule is used by every object-store operation:
\* with an empty prefix the key is used verbatim, otherwise the full key is
\* the prefix without trailing slashes, a slash, and the key.  An upload
\* writes the object of the joined key and no other, a download reads it;
\* the keys list_prefix returns are relative to the prefix of the uploader:
\* joined again they are exactly the keys of the objects that were listed,
\* one returned key for each; and a key uploaded with upload_bytes is read
\* back by the download_bytes of the same key that follows.
C37_PrefixJoining ==
    [][/\ arg'.op \in {"upload_file", "upload_bytes"}
            => objects' = PutObject(objects, Joined(r2.prefix, arg'.key), arg'.data)
       /\ arg'.op \in {"download_file", "download_bytes"}
            => /\ objects' = objects
               /\ ret' = GetObject(objects, Joined(r2.prefix, arg'.key))
       /\ arg'.op = "list_prefix"
            => LET listed == {k \in DOMAIN objects :
                                 StartsWith(k, Joined(r2.prefix, arg'.prefix))}
               IN  /\ objects' = objects
                   /\ {Joined(r2.prefix, r) : r \in ret'.v} = listed
                   /\ Cardinality(ret'.v) = Cardinality(listed)
                   /\ \A r \in ret'.v :
                          GetObject(objects, FullKey(r2.prefix, r)).kind = "bytes"
       /\ (arg.op = "upload_bytes" /\ arg'.op = "download_bytes" /\ arg'.key = arg.key)
            => ret' = [kind |-> "bytes", v |-> arg.data]
      ]_vars

\* a listing, by an uploader whose prefix ends with two slashes, that
\* returned two keys while the bucket holds objects outside the prefix
C37_Witness ==
    /\ arg.op = "list_prefix"
    /\ r2.prefix = <<"a", "/", "/">>
    /\ arg.prefix = <<"c", "/">>
    /\ ret.v = {<<"c", "/", "0">>, <<"c", "/", "1">>}
    /\ <<"a", "b", "/", "x">> \in DOMAIN objects
    /\ <<"a", "/", "x">> \in DOMAIN objects

\* C38: a remote build is independent of the runs before it: every chunk
\* object a run uploads is one it fetched from the store or one that was not
\* in the staging directory when the run began, so that it was produced from
\* the COG directory of the run; no chunk file an earlier run left in the
\* staging directory is uploaded, as it was or merged with a COG of the run.
C38_RunsIndependent ==
    \A o \in run.put :
        o.kind = "chunk"
            => \/ o.key \in run.fetched
               \/ rpre.staging.chunks[o.key] = << >>

\* the consecutive days from a to b
DayRange(a, b) == [i \in 1..(b - a + 1) |-> a + i - 1]

\* C39: generate_date_range(start, end) terminates for every pair of dates
\* and returns the consecutive dates from start to end in strictly ascending
\* order, (end - start) + 1 of them when start <= end and none when
\* start > end: the dates it has collected are at every point of the call the
\* first of that range, never more than the range holds, and when it returns
\* they are the whole range.
C39_DateRange ==
    gen.pc # "idle"
        => LET range == IF gen.start <= gen.end THEN DayRange(gen.start, gen.end) ELSE << >>
           IN  /\ Len(gen.dates) <= Len(range)
               /\ gen.dates = SubSeq(range, 1, Len(gen.dates))
               /\ IsStrictlyAscending(gen.dates)
               /\ gen.pc = "returned" => gen.dates = range
====
